---------------------------- MODULE Spec2Model ----------------------------
(***************************************************************************)
(* A model of the review page (frontend/src/review/ReviewPage.jsx) and of  *)
(* its geometry helpers (review/highlightUtils): the reconciliation of the *)
(* raw / normalized / corrected field maps, the highlight selection state  *)
(* machine, the document load effect with its staleness flag and the save  *)
(* handler.                                                                *)
(*                                                                         *)
(* JavaScript values are encoded as follows.  A number is an integer; the  *)
(* values NaN, undefined, null and Infinity, where a number may stand, are *)
(* the reserved integers NaN, Undefined, Null and Infinity.  A confidence   *)
(* and a zoom are in hundredths.  A highlight id, the string               *)
(* `${fieldName}:${page}:${x1}:${y1}:${x2}:${y2}`, is the tuple of its six  *)
(* components: the five numeric components never hold a ':', so the string *)
(* determines the tuple and the tuple the string.  createdAt (Date.now())  *)
(* is read by no handler and is left out of a highlight.                   *)
(***************************************************************************)
EXTENDS Integers, Sequences, FiniteSets, TLC

\* ------------------------------------------------------------------------
\* JavaScript values
\* ------------------------------------------------------------------------

NaN == -9999

Undefined == -9998

Null == -9997

Infinity == 9999

\* Number(v)
ToNumber(v) ==
  IF v = Undefined THEN NaN
  ELSE IF v = Null THEN 0
  ELSE v

\* Number.isFinite(v), v a number
IsFinite(v) == v \notin {NaN, Undefined, Null, Infinity}

\* Boolean(v), v a number, null or undefined
Truthy(v) == v \notin {0, NaN, Undefined, Null}

\* a || b
OrElse(a, b) == IF Truthy(a) THEN a ELSE b

\* String.prototype.toLowerCase, on the status strings a payload may carry
ToLower(s) ==
  CASE s \in {"ERROR", "Error"} -> "error"
    [] s \in {"INVALID", "Invalid"} -> "invalid"
    [] s = "OK" -> "ok"
    [] OTHER -> s

\* Math.max, Math.min
Max(a, b) == IF a >= b THEN a ELSE b

Min(a, b) == IF a <= b THEN a ELSE b

\* array.includes(x)
Includes(seq, x) == \E i \in 1..Len(seq) : seq[i] = x

\* ------------------------------------------------------------------------
\* Geometry utilities (highlightUtils)
\* ------------------------------------------------------------------------

\* A raw bbox as a payload carries it: null/undefined, an array of any
\* length, or an object with x1, y1, x2, y2 and an optional page.
NoBBox == [form |-> "null", c |-> <<>>, page |-> Undefined]

ArrBBox(c) == [form |-> "array", c |-> c, page |-> Undefined]

ObjBBox(c, p) == [form |-> "object", c |-> c, page |-> p]

\* the null result of normalizeBBox
NullBBox == [isNull |-> TRUE]

normalizeBBox(raw, fallbackPage) ==
  IF raw.form = "null" THEN NullBBox
  ELSE IF raw.form = "array" THEN
    IF Len(raw.c) # 4 THEN NullBBox
    ELSE [x1 |-> OrElse(ToNumber(raw.c[1]), 0),
          y1 |-> OrElse(ToNumber(raw.c[2]), 0),
          x2 |-> OrElse(ToNumber(raw.c[3]), 0),
          y2 |-> OrElse(ToNumber(raw.c[4]), 0),
          page |-> fallbackPage]
  ELSE
    LET x1 == ToNumber(raw.c[1])
        y1 == ToNumber(raw.c[2])
        x2 == ToNumber(raw.c[3])
        y2 == ToNumber(raw.c[4])
    IN  IF \E v \in {x1, y1, x2, y2} : v = NaN THEN NullBBox
        ELSE [x1 |-> x1, y1 |-> y1, x2 |-> x2, y2 |-> y2,
              page |-> IF IsFinite(ToNumber(raw.page))
                       THEN ToNumber(raw.page)
                       ELSE fallbackPage]

clamp(value, min, max) ==
  IF value = NaN THEN min ELSE Min(Max(value, min), max)

\* bboxToRect without the floor of 2 on width and height
RectWithoutFloor(bbox, dimensions) ==
  LET inferredRelative ==
        IF dimensions.bboxRelative \in {"true", "false"}
          THEN dimensions.bboxRelative = "true"
          ELSE Max(Max(bbox.x1, bbox.y1), Max(bbox.x2, bbox.y2)) <= 1
      Scaled(v, display, natural) ==
        IF Truthy(natural) THEN (v * display) \div natural ELSE v
  IN  IF inferredRelative
        THEN [left |-> bbox.x1 * dimensions.displayWidth,
              top |-> bbox.y1 * dimensions.displayHeight,
              width |-> (bbox.x2 - bbox.x1) * dimensions.displayWidth,
              height |-> (bbox.y2 - bbox.y1) * dimensions.displayHeight]
        ELSE [left |-> Scaled(bbox.x1, dimensions.displayWidth,
                              dimensions.naturalWidth),
              top |-> Scaled(bbox.y1, dimensions.displayHeight,
                             dimensions.naturalHeight),
              width |-> Scaled(bbox.x2 - bbox.x1, dimensions.displayWidth,
                               dimensions.naturalWidth),
              height |-> Scaled(bbox.y2 - bbox.y1, dimensions.displayHeight,
                                dimensions.naturalHeight)]

\* bboxRelative is "true", "false" or "none"; the coordinates are integers, so
\* the threshold 1.5 is the threshold 1; a product with a quotient
\* displayWidth / naturalWidth is rounded down
bboxToRect(bbox, dimensions) ==
  LET inferredRelative ==
        IF dimensions.bboxRelative \in {"true", "false"}
          THEN dimensions.bboxRelative = "true"
          ELSE Max(Max(bbox.x1, bbox.y1), Max(bbox.x2, bbox.y2)) <= 1
      Scaled(v, display, natural) ==
        IF Truthy(natural) THEN (v * display) \div natural ELSE v
  IN  IF inferredRelative
        THEN [left |-> bbox.x1 * dimensions.displayWidth,
              top |-> bbox.y1 * dimensions.displayHeight,
              width |-> Max((bbox.x2 - bbox.x1) * dimensions.displayWidth, 2),
              height |-> Max((bbox.y2 - bbox.y1) * dimensions.displayHeight, 2)]
        ELSE [left |-> Scaled(bbox.x1, dimensions.displayWidth,
                              dimensions.naturalWidth),
              top |-> Scaled(bbox.y1, dimensions.displayHeight,
                             dimensions.naturalHeight),
              width |-> Max(Scaled(bbox.x2 - bbox.x1, dimensions.displayWidth,
                                   dimensions.naturalWidth), 2),
              height |-> Max(Scaled(bbox.y2 - bbox.y1, dimensions.displayHeight,
                                    dimensions.naturalHeight), 2)]

\* computeZoomToFit returning its target as it is
ZoomWithoutClamp(rect, viewport, padding, minZoom, maxZoom) ==
  LET safeWidth == Max(rect.width + padding * 2, 1)
      safeHeight == Max(rect.height + padding * 2, 1)
      zoomX == (viewport.width * 100) \div safeWidth
      zoomY == (viewport.height * 100) \div safeHeight
  IN  Min(zoomX, zoomY)

\* the zoom, in hundredths; minZoom and maxZoom are in hundredths too
computeZoomToFit(rect, viewport, padding, minZoom, maxZoom) ==
  LET safeWidth == Max(rect.width + padding * 2, 1)
      safeHeight == Max(rect.height + padding * 2, 1)
      zoomX == (viewport.width * 100) \div safeWidth
      zoomY == (viewport.height * 100) \div safeHeight
      target == Min(zoomX, zoomY)
  IN  clamp(target, minZoom, maxZoom)

\* ------------------------------------------------------------------------
\* Field reconciliation
\* ------------------------------------------------------------------------

PRIORITY_FIELDS ==
  << "supplier_name", "fournisseur", "date", "city", "ville", "country",
     "pays", "montant", "total", "tva", "ice", "rib", "iban",
     "numero_facture", "adresse", "email" >>

\* The field names of the model's payloads, in the order Array.prototype.sort
\* gives them (by UTF-16 code units).
SortedNames ==
  << "a", "b", "c", "client", "date", "email", "ice", "montant", "total",
     "zip" >>

\* A field value of a payload map: a scalar, null, an array or an object.
\* confidence is in percent; isValid and bbox_relative are "true", "false"
\* or "none" (not a boolean); status is "" when the payload has none.
Scalar(v) ==
  [kind |-> "scalar", value |-> v, bbox |-> NoBBox, page |-> Undefined,
   confidence |-> Undefined, bbox_relative |-> "none", errors |-> <<>>,
   isValid |-> "none", status |-> "", message |-> ""]

Obj(v, bbox, page) ==
  [kind |-> "object", value |-> v, bbox |-> bbox, page |-> page,
   confidence |-> Undefined, bbox_relative |-> "none", errors |-> <<>>,
   isValid |-> "none", status |-> "", message |-> ""]

\* null, and an array, written by its JSON text
NullValue == [Scalar("") EXCEPT !.kind = "null"]

ArrayValue(json) == [Scalar(json) EXCEPT !.kind = "array"]

readValue(payloadValue) ==
  IF payloadValue.kind = "null" THEN ""
  ELSE payloadValue.value

\* asList: the truthy items of an array, as strings ("" is the falsy item)
asList(value) ==
  LET IsTruthy(item) == item # "" IN SelectSeq(value, IsTruthy)

\* the null result of extractFieldMeta
NullMeta == [isNull |-> TRUE]

extractFieldMeta(payloadValue) ==
  IF payloadValue.kind # "object" THEN NullMeta
  ELSE [bbox |-> payloadValue.bbox,
        page |-> IF IsFinite(ToNumber(payloadValue.page))
                 THEN ToNumber(payloadValue.page)
                 ELSE Null,
        confidence |-> IF IsFinite(payloadValue.confidence)
                       THEN payloadValue.confidence
                       ELSE Null,
        bbox_relative |-> payloadValue.bbox_relative,
        errors |-> asList(payloadValue.errors),
        isValid |-> payloadValue.isValid,
        status |-> payloadValue.status,
        message |-> payloadValue.message]

\* extractFieldMeta(map[name]); map[name] is undefined for a missing key
MetaOf(map, name) ==
  IF name \in DOMAIN map THEN extractFieldMeta(map[name]) ELSE NullMeta

\* mergeFieldNames without the priority list: every name, sorted
MergeSortsAll(rawFields, normalizedFields, correctedFields) ==
  LET names == DOMAIN rawFields \cup DOMAIN normalizedFields
                 \cup DOMAIN correctedFields
      InNames(n) == n \in names
  IN  SelectSeq(SortedNames, InNames)

mergeFieldNames(rawFields, normalizedFields, correctedFields) ==
  LET names == DOMAIN rawFields \cup DOMAIN normalizedFields
                 \cup DOMAIN correctedFields
      InNames(n) == n \in names
      priority == SelectSeq(PRIORITY_FIELDS, InNames)
      IsRest(n) == n \in names /\ ~Includes(priority, n)
      rest == SelectSeq(SortedNames, IsRest)
  IN  priority \o rest

\* pickInitialFieldValue looking at normalized before corrected
PickNormalizedFirst(fieldName, rawFields, normalizedFields, correctedFields) ==
  IF fieldName \in DOMAIN normalizedFields
    THEN readValue(normalizedFields[fieldName])
  ELSE IF fieldName \in DOMAIN correctedFields
    THEN readValue(correctedFields[fieldName])
  ELSE IF fieldName \in DOMAIN rawFields
    THEN readValue(rawFields[fieldName])
  ELSE ""

pickInitialFieldValue(fieldName, rawFields, normalizedFields, correctedFields) ==
  IF fieldName \in DOMAIN correctedFields
    THEN readValue(correctedFields[fieldName])
  ELSE IF fieldName \in DOMAIN normalizedFields
    THEN readValue(normalizedFields[fieldName])
  ELSE IF fieldName \in DOMAIN rawFields
    THEN readValue(rawFields[fieldName])
  ELSE ""

resolveHighlightStatus(meta) ==
  LET status == ToLower(meta.status)
  IN
  IF status = "error" THEN "error"
  ELSE IF status = "invalid" THEN "invalid"
  ELSE IF Len(meta.errors) > 0 THEN "error"
  ELSE IF meta.isValid = "false" THEN "invalid"
  ELSE IF meta.confidence # Null /\ meta.confidence < 50 THEN "invalid"
  ELSE "ok"

\* The field names, values and metadata a payload reconciles to: the loop of
\* the load effect and of handleSave.
SeqToSet(s) == {s[i] : i \in 1..Len(s)}

ReconcileNames(p) ==
  mergeFieldNames(p.raw_extracted_fields, p.normalized_fields,
                  p.user_corrected_fields)

ReconcileValues(p) ==
  [name \in SeqToSet(ReconcileNames(p)) |->
     pickInitialFieldValue(name, p.raw_extracted_fields, p.normalized_fields,
                           p.user_corrected_fields)]

\* the metadata is taken from the map the value is taken from
MetaFromValueSource(p) ==
  [name \in SeqToSet(ReconcileNames(p)) |->
     IF name \in DOMAIN p.user_corrected_fields
       THEN MetaOf(p.user_corrected_fields, name)
     ELSE IF name \in DOMAIN p.normalized_fields
       THEN MetaOf(p.normalized_fields, name)
     ELSE MetaOf(p.raw_extracted_fields, name)]

ReconcileMeta(p) ==
  [name \in SeqToSet(ReconcileNames(p)) |->
     IF MetaOf(p.user_corrected_fields, name) # NullMeta
       THEN MetaOf(p.user_corrected_fields, name)
     ELSE IF MetaOf(p.normalized_fields, name) # NullMeta
       THEN MetaOf(p.normalized_fields, name)
     ELSE MetaOf(p.raw_extracted_fields, name)]

\* ------------------------------------------------------------------------
\* The server: the documents it holds and what its endpoints answer
\* ------------------------------------------------------------------------

\* Documents 1 and 2 are fixed documents; documents 3 (a pdf) and 4 (an image)
\* hold a field of arbitrary geometry and document 5 a field of arbitrary
\* validation state.
DocIds == {1, 2}

GeomDocIds == {3, 4}

StatusDocIds == {5}

\* Document 6 (an image) holds a field whose box has arbitrary coordinates,
\* negative ones included, and an arbitrary bbox_relative.
RectDocIds == {6}

\* Document 7 (an image) holds a field c with a value of any shape, or none,
\* in each of its three maps, among any of five other fields.
MergeDocIds == {7}

EmptyMap == [n \in {} |-> Scalar("")]

\* Document 1, a two-page pdf.  total is corrected to a scalar, so its
\* metadata comes from the normalized map; ice's bbox names its own page;
\* email's bbox has no x1.
P1 ==
  [raw_extracted_fields |->
     ("date" :> Obj("2024", ArrBBox(<<5, 5, 50, 20>>), 2)
      @@ "email" :> Obj("x@y", ObjBBox(<<Undefined, 1, 2, 3>>, Undefined), 1)),
   normalized_fields |->
     ("total" :> Obj("100", ObjBBox(<<10, 10, 110, 60>>, Undefined), 1)
      @@ "ice" :> Obj("ICE1", ObjBBox(<<1, 2, 3, 4>>, 2), Undefined)),
   user_corrected_fields |-> ("total" :> Scalar("101")),
   status |-> "in_review"]

\* Document 1 after the server has moved total's bbox and stored email as a
\* scalar, without metadata; the answer carries no status.
P1b ==
  [raw_extracted_fields |->
     ("date" :> Obj("2024", ArrBBox(<<5, 5, 50, 20>>), 2)
      @@ "email" :> Scalar("x@y")),
   normalized_fields |->
     ("total" :> Obj("100", ObjBBox(<<12, 10, 110, 60>>, Undefined), 1)
      @@ "ice" :> Obj("ICE1", ObjBBox(<<1, 2, 3, 4>>, 2), Undefined)),
   user_corrected_fields |-> ("total" :> Scalar("101")),
   status |-> ""]

\* Document 2, a single image; client is a scalar without metadata.
P2 ==
  [raw_extracted_fields |->
     ("total" :> Obj("7", ObjBBox(<<10, 10, 110, 60>>, Undefined), 1)
      @@ "client" :> Scalar("c")),
   normalized_fields |-> EmptyMap,
   user_corrected_fields |-> EmptyMap,
   status |-> ""]

\* The bbox and page values a field of documents 3 and 4 may carry.
BBoxInputs ==
  { NoBBox,
    ArrBBox(<<1, 2, 3>>),
    ArrBBox(<<10, 10, 50, 30>>),
    ArrBBox(<<Null, 10, 50, 30>>),
    ObjBBox(<<10, 10, 50, 30>>, Undefined),
    ObjBBox(<<10, 10, 50, 30>>, 0),
    ObjBBox(<<10, 10, 50, 30>>, -1),
    ObjBBox(<<10, 10, 50, 30>>, 2),
    ObjBBox(<<10, Undefined, 50, 30>>, Undefined),
    ObjBBox(<<10, 10, Infinity, 30>>, Undefined),
    ObjBBox(<<10, 10, 50, Null>>, 1) }

PageInputs == {Undefined, 0, -1, 2, 5}

\* Documents 3 and 4: montant has the drawn geometry, date a fixed one.
GeomPayload(bbox, page) ==
  [raw_extracted_fields |->
     ("montant" :> Obj("12", bbox, page)
      @@ "date" :> Obj("2024", ArrBBox(<<5, 5, 50, 20>>), 2)),
   normalized_fields |-> EmptyMap,
   user_corrected_fields |-> EmptyMap,
   status |-> "in_review"]

\* The coordinates and the bbox_relative a field of document 6 may carry.
\* Coordinates are integers: a coordinate is at most 1.5 exactly when it is
\* at most 1.
RectCoordInputs ==
  { <<0, 0, 1, 1>>, <<1, 1, 1, 1>>, <<0, 0, 2, 1>>, <<10, 10, 110, 60>>,
    <<10, 10, 10, 10>>, <<-1, -1, 1, 1>>, <<-2, 0, 1, 1>>, <<-10, -5, 0, 1>>,
    <<-10, -5, 50, 30>> }

RelativeInputs == {"none", "true", "false"}

\* Document 6: montant has the drawn box, date a fixed one.
RectPayload(coords, relative) ==
  [raw_extracted_fields |->
     ("montant" :> [Obj("12", ObjBBox(coords, Undefined), 1) EXCEPT
                      !.bbox_relative = relative]
      @@ "date" :> Obj("2024", ArrBBox(<<5, 5, 50, 20>>), 1)),
   normalized_fields |-> EmptyMap,
   user_corrected_fields |-> EmptyMap,
   status |-> "in_review"]

\* The shapes the value of c may have in a map of document 7 ("absent": the
\* map has no key c), and the other fields the document may hold.
ShapeInputs == {"absent", "scalar", "object", "null", "array"}

ExtraNames == {"a", "b", "ice", "montant", "zip"}

\* the value of c in a map: 3 in raw, 4 in normalized, 5 in corrected, each
\* object with a box of its own
ShapedValue(shape, v, corner) ==
  IF shape = "object" THEN Obj(v, ArrBBox(<<corner, corner, 10, 10>>), 1)
  ELSE IF shape = "null" THEN NullValue
  ELSE IF shape = "array" THEN ArrayValue("[" \o v \o "]")
  ELSE Scalar(v)

\* a map of document 7: c if it has a shape there, and those of the drawn
\* fields that belong to the map
MergeMap(names, shape, cValue, corner, values) ==
  [n \in (names \cap DOMAIN values)
            \cup (IF shape = "absent" THEN {} ELSE {"c"}) |->
     IF n = "c" THEN ShapedValue(shape, cValue, corner) ELSE values[n]]

\* Document 7: raw holds a, b and ice, normalized b and montant, corrected
\* zip, when drawn.
MergePayload(names, shapes) ==
  [raw_extracted_fields |->
     MergeMap(names, shapes[1], "3", 3,
              "a" :> Scalar("1") @@ "b" :> Scalar("2")
              @@ "ice" :> Obj("ICE1", ArrBBox(<<1, 2, 3, 4>>), 1)),
   normalized_fields |->
     MergeMap(names, shapes[2], "4", 4,
              "b" :> Scalar("3")
              @@ "montant" :> Obj("12", ArrBBox(<<10, 10, 50, 30>>), 1)),
   user_corrected_fields |->
     MergeMap(names, shapes[3], "5", 5, "zip" :> Scalar("75001")),
   status |-> "in_review"]

\* The validation state a field of document 5 may carry.
StatusInputs == {"", "ok", "error", "ERROR", "invalid", "warning"}

ErrorsInputs == {<<>>, <<"bad ICE">>, <<"">>}

IsValidInputs == {"none", "true", "false"}

ConfidenceInputs == {Undefined, 40, 50, 90}

\* Document 5: ice has the drawn validation state.
StatusPayload(st, errors, isValid, confidence) ==
  [raw_extracted_fields |->
     ("ice" :> [Obj("ICE1", ArrBBox(<<1, 2, 3, 4>>), 1) EXCEPT
                  !.status = st, !.errors = errors, !.isValid = isValid,
                  !.confidence = confidence]),
   normalized_fields |-> EmptyMap,
   user_corrected_fields |-> EmptyMap,
   status |-> "in_review"]

\* The name of a payload the server may answer with.
Pid(kind, name, bbox, page, st, errors, isValid, confidence) ==
  [kind |-> kind, name |-> name, bbox |-> bbox, page |-> page, status |-> st,
   errors |-> errors, isValid |-> isValid, confidence |-> confidence,
   relative |-> "none", names |-> {},
   shapes |-> <<"absent", "absent", "absent">>]

FixedPid(name) ==
  Pid("fixed", name, NoBBox, Undefined, "", <<>>, "none", Undefined)

GeomPids ==
  {Pid("geom", "", bbox, page, "", <<>>, "none", Undefined) :
     bbox \in BBoxInputs, page \in PageInputs}

StatusPids ==
  {Pid("status", "", NoBBox, Undefined, st, errors, isValid, confidence) :
     st \in StatusInputs, errors \in ErrorsInputs,
     isValid \in IsValidInputs, confidence \in ConfidenceInputs}

RectPids ==
  {[Pid("rect", "", ObjBBox(coords, Undefined), 1, "", <<>>, "none", Undefined)
      EXCEPT !.relative = relative] :
     coords \in RectCoordInputs, relative \in RelativeInputs}

MergePids ==
  {[Pid("merge", "", NoBBox, Undefined, "", <<>>, "none", Undefined)
      EXCEPT !.names = names, !.shapes = shapes] :
     names \in SUBSET ExtraNames,
     shapes \in ShapeInputs \X ShapeInputs \X ShapeInputs}

PayloadIds == {FixedPid("P1"), FixedPid("P1b"), FixedPid("P2")}
                \cup GeomPids \cup StatusPids \cup RectPids \cup MergePids

Store ==
  [pid \in PayloadIds |->
     IF pid.kind = "geom" THEN GeomPayload(pid.bbox, pid.page)
     ELSE IF pid.kind = "status"
       THEN StatusPayload(pid.status, pid.errors, pid.isValid, pid.confidence)
     ELSE IF pid.kind = "rect" THEN RectPayload(pid.bbox.c, pid.relative)
     ELSE IF pid.kind = "merge" THEN MergePayload(pid.names, pid.shapes)
     ELSE IF pid.name = "P1" THEN P1
     ELSE IF pid.name = "P1b" THEN P1b
     ELSE P2]

\* what GET/PUT /review/documents/{id} may answer for a document
DocPayloads(doc) ==
  IF doc = 1 THEN {FixedPid("P1"), FixedPid("P1b")}
  ELSE IF doc = 2 THEN {FixedPid("P2")}
  ELSE IF doc \in GeomDocIds THEN GeomPids
  ELSE IF doc \in RectDocIds THEN RectPids
  ELSE IF doc \in MergeDocIds THEN MergePids
  ELSE StatusPids

\* what GET /review/documents/{id}/preview/meta answers
PreviewMetaOf(doc) ==
  IF doc = 1 THEN [available |-> TRUE, file_type |-> "pdf", page_count |-> 2]
  ELSE IF doc = 3
    THEN [available |-> TRUE, file_type |-> "pdf", page_count |-> 3]
  ELSE [available |-> TRUE, file_type |-> "png", page_count |-> 1]

InitialPreviewMeta == [available |-> FALSE, file_type |-> "null", page_count |-> 0]

\* ------------------------------------------------------------------------
\* State of the page
\* ------------------------------------------------------------------------

VARIABLES
  enhanced,            \* ENHANCED_HIGHLIGHTS_ENABLED, fixed by the build
  documentId,          \* the documentId prop
  alive,               \* the component is mounted
  loading, error, saving,
  status,              \* the review status shown in the header
  previewMeta, previewPage,
  fieldNames, fieldValues, fieldMeta,
  rawFields, normalizedFields, userCorrectedFields,
  activeField,
  highlightsState,     \* [highlights, selectedHighlightIds]
  autoZoomEnabled, zoomScale,
  imageMetrics,        \* displayed and natural size of the preview image
  viewerScroll,        \* the scroll container as last read, and the offsets
                       \* last requested of it, in half pixels
  raf,                 \* the re-measure effect: the dependencies of its last
                       \* run and the animation frames it has requested
  loads,               \* load effects whose Promise.all has not settled
  saves,               \* save requests in flight
  ev,                  \* history: the handler that ran last
  toggle               \* history: progress of focus A, multi B, multi A

fieldVars == <<fieldNames, fieldValues, fieldMeta, rawFields,
               normalizedFields, userCorrectedFields, status>>

viewVars == <<autoZoomEnabled, zoomScale, imageMetrics, viewerScroll>>

previewVars == <<previewMeta, previewPage>>

vars == <<enhanced, documentId, alive, loading, error, saving, status,
          previewMeta, previewPage, fieldNames, fieldValues, fieldMeta,
          rawFields, normalizedFields, userCorrectedFields, activeField,
          highlightsState, autoZoomEnabled, zoomScale, imageMetrics,
          viewerScroll, raf, loads,
          saves, ev, toggle>>

highlights == highlightsState.highlights

selectedHighlightIds == highlightsState.selectedHighlightIds

IdleHighlights == [highlights |-> <<>>, selectedHighlightIds |-> <<>>]

\* ------------------------------------------------------------------------
\* Highlight state machine
\* ------------------------------------------------------------------------

\* the null result of buildHighlightForField
NullHighlight == [isNull |-> TRUE]

buildHighlightForField(fieldName) ==
  IF fieldName \notin DOMAIN fieldMeta \/ fieldMeta[fieldName] = NullMeta
    THEN NullHighlight
  ELSE
    LET meta == fieldMeta[fieldName]
        normalizedBBox == normalizeBBox(meta.bbox, OrElse(meta.page, 1))
    IN  IF normalizedBBox = NullBBox THEN NullHighlight
        ELSE
          LET page == ToNumber(OrElse(OrElse(normalizedBBox.page, meta.page), 1))
              bbox == [normalizedBBox EXCEPT !.page = page]
          IN  [id |-> <<fieldName, page, bbox.x1, bbox.y1, bbox.x2, bbox.y2>>,
               fieldKey |-> fieldName,
               bbox |-> bbox,
               status |-> resolveHighlightStatus(meta),
               message |-> IF meta.message # "" THEN meta.message
                           ELSE IF Len(meta.errors) > 0 THEN meta.errors[1]
                           ELSE ""]

\* a state holding one highlight, or none
Replace(nextHighlight) ==
  IF nextHighlight = NullHighlight THEN IdleHighlights
  ELSE [highlights |-> <<nextHighlight>>,
        selectedHighlightIds |-> <<nextHighlight.id>>]

\* updateSelectionFromField with one of its branches changed
SelectionVariant(prev, nextHighlight, isMultiSelect, bug) ==
  LET single == ~isMultiSelect \/ (~enhanced /\ bug # "ignoreFlag")
      NotNext(id) == id # nextHighlight.id
      nextSelected ==
        IF bug = "dropLast"
          THEN SubSeq(prev.selectedHighlightIds, 1,
                      Len(prev.selectedHighlightIds) - 1)
          ELSE SelectSeq(prev.selectedHighlightIds, NotNext)
      StillSelected(item) == Includes(nextSelected, item.id)
      OtherItem(item) == item.id # nextHighlight.id
      filtered == SelectSeq(prev.highlights, OtherItem)
  IN  IF single /\ bug # "accumulate" THEN Replace(nextHighlight)
      ELSE IF nextHighlight = NullHighlight
        THEN IF bug = "clearOnNull" THEN IdleHighlights ELSE prev
      ELSE IF Includes(prev.selectedHighlightIds, nextHighlight.id)
              /\ bug # "alwaysAppend"
        THEN IF bug = "toggleOffClears" THEN IdleHighlights
             ELSE [highlights |->
                     IF bug = "keepHighlights" THEN prev.highlights
                     ELSE SelectSeq(prev.highlights, StillSelected),
                   selectedHighlightIds |->
                     IF bug = "keepSelection" THEN prev.selectedHighlightIds
                     ELSE nextSelected]
      ELSE IF bug = "prepend"
        THEN [highlights |-> <<nextHighlight>> \o filtered,
              selectedHighlightIds |->
                <<nextHighlight.id>> \o prev.selectedHighlightIds]
      ELSE [highlights |->
              Append(IF bug = "alwaysAppend" THEN prev.highlights ELSE filtered,
                     nextHighlight),
            selectedHighlightIds |->
              Append(prev.selectedHighlightIds, nextHighlight.id)]

\* toggling off filters the highlights and leaves the selection as it was
UpdateKeepsSelection(prev, nextHighlight, isMultiSelect) ==
  SelectionVariant(prev, nextHighlight, isMultiSelect, "keepSelection")

\* a single-select focus accumulates like a multi-select one
UpdateAccumulates(prev, nextHighlight, isMultiSelect) ==
  SelectionVariant(prev, nextHighlight, isMultiSelect, "accumulate")

\* a newly selected highlight is put first
UpdatePrepends(prev, nextHighlight, isMultiSelect) ==
  SelectionVariant(prev, nextHighlight, isMultiSelect, "prepend")

\* toggling off removes the last selected id
UpdateDropsLast(prev, nextHighlight, isMultiSelect) ==
  SelectionVariant(prev, nextHighlight, isMultiSelect, "dropLast")

\* a multi-select focus without candidate clears, like a single-select one
UpdateClearsOnNull(prev, nextHighlight, isMultiSelect) ==
  SelectionVariant(prev, nextHighlight, isMultiSelect, "clearOnNull")

\* a multi-select focus appends without looking at the selection
UpdateAlwaysAppends(prev, nextHighlight, isMultiSelect) ==
  SelectionVariant(prev, nextHighlight, isMultiSelect, "alwaysAppend")

\* toggling off clears the whole selection
UpdateToggleOffClears(prev, nextHighlight, isMultiSelect) ==
  SelectionVariant(prev, nextHighlight, isMultiSelect, "toggleOffClears")

\* a single-select focus on the selected field deselects it
UpdateSingleToggles(prev, nextHighlight, isMultiSelect) ==
  IF /\ ~(enhanced /\ isMultiSelect)
     /\ nextHighlight # NullHighlight
     /\ Includes(prev.selectedHighlightIds, nextHighlight.id)
    THEN IdleHighlights
    ELSE SelectionVariant(prev, nextHighlight, isMultiSelect, "none")

\* toggling off removes the id and leaves the highlight in the list
UpdateKeepsHighlights(prev, nextHighlight, isMultiSelect) ==
  SelectionVariant(prev, nextHighlight, isMultiSelect, "keepHighlights")

\* the updater updateSelectionFromField hands to setHighlightsState
updateSelectionFromField(prev, nextHighlight, isMultiSelect) ==
  IF ~enhanced THEN Replace(nextHighlight)
  ELSE IF ~isMultiSelect THEN Replace(nextHighlight)
  ELSE IF nextHighlight = NullHighlight THEN prev
  ELSE
    LET wasSelected == Includes(prev.selectedHighlightIds, nextHighlight.id)
        NotNext(id) == id # nextHighlight.id
        nextSelected == SelectSeq(prev.selectedHighlightIds, NotNext)
        StillSelected(item) == Includes(nextSelected, item.id)
        OtherItem(item) == item.id # nextHighlight.id
        filtered == SelectSeq(prev.highlights, OtherItem)
    IN  IF wasSelected
          THEN [highlights |-> SelectSeq(prev.highlights, StillSelected),
                selectedHighlightIds |-> nextSelected]
          ELSE [highlights |-> Append(filtered, nextHighlight),
                selectedHighlightIds |->
                  Append(prev.selectedHighlightIds, nextHighlight.id)]

\* primaryHighlight: the highlight of the last selected id
PrimaryOf(hs) ==
  IF Len(hs.selectedHighlightIds) = 0 THEN NullHighlight
  ELSE
    LET primaryId == hs.selectedHighlightIds[Len(hs.selectedHighlightIds)]
        found == {i \in 1..Len(hs.highlights) : hs.highlights[i].id = primaryId}
    IN  IF found = {} THEN NullHighlight
        ELSE hs.highlights[CHOOSE i \in found : \A j \in found : i <= j]

primaryHighlight == PrimaryOf(highlightsState)

hasAnyBBox ==
  \E name \in DOMAIN fieldMeta :
     /\ fieldMeta[name] # NullMeta
     /\ normalizeBBox(fieldMeta[name].bbox, OrElse(fieldMeta[name].page, 1))
          # NullBBox

\* ------------------------------------------------------------------------
\* Construction
\* ------------------------------------------------------------------------

\* a load effect's closure: its mounted flag and its two fetches
NewLoad(doc) ==
  [doc |-> doc, mounted |-> TRUE, docRes |-> "pending", metaRes |-> "pending"]

NoReq == [doc |-> 0, mounted |-> FALSE, docRes |-> "none", metaRes |-> "none"]

\* History: the handler that ran, with its inputs: the field and modifier
\* key of a focus, the load request (as it was before the handler) of a
\* response.
Event(op, field, mod, req) ==
  [op |-> op, field |-> field, mod |-> mod, req |-> req]

UiEvent(op) == Event(op, "", FALSE, NoReq)

NoToggle == [step |-> 0, a |-> "", b |-> ""]

\* VITE_REVIEW_AUTO_ZOOM_DEFAULT of the default build
AUTO_ZOOM_DEFAULT == FALSE

\* the useState value of imageMetrics
NoMetrics ==
  [displayWidth |-> 0, displayHeight |-> 0, naturalWidth |-> 0,
   naturalHeight |-> 0]

\* the empty previewUrl; a preview url is written as the pair of the
\* document and the page it is built from
NoUrl == <<>>

\* the scroll container before any scrollTo
NoScroll ==
  [container |-> [clientWidth |-> 0, clientHeight |-> 0, scrollWidth |-> 0,
                  scrollHeight |-> 0],
   top |-> 0, left |-> 0]

\* The state after the first render and its effects: the useState initial
\* values, and the load effect has set loading and issued both fetches.
InitOf(docs) ==
  /\ enhanced \in BOOLEAN
  /\ documentId \in docs
  /\ alive = TRUE
  /\ loading = TRUE
  /\ error = ""
  /\ saving = FALSE
  /\ status = "in_review"
  /\ autoZoomEnabled = AUTO_ZOOM_DEFAULT
  /\ zoomScale = 100
  /\ imageMetrics = NoMetrics
  /\ viewerScroll = NoScroll
  /\ raf = [deps |-> [url |-> NoUrl, page |-> 1, zoom |-> 100], frames |-> {}]
  /\ previewMeta = InitialPreviewMeta
  /\ previewPage = 1
  /\ fieldNames = <<>>
  /\ fieldValues = EmptyMap
  /\ fieldMeta = EmptyMap
  /\ rawFields = EmptyMap
  /\ normalizedFields = EmptyMap
  /\ userCorrectedFields = EmptyMap
  /\ activeField = ""
  /\ highlightsState = IdleHighlights
  /\ loads = {NewLoad(documentId)}
  /\ saves = {}
  /\ ev = UiEvent("init")
  /\ toggle = NoToggle

Init == InitOf(DocIds)

\* ------------------------------------------------------------------------
\* User events
\* ------------------------------------------------------------------------

\* the field list and the viewer controls are rendered
Rendered == alive /\ ~loading /\ ~(error # "" /\ Len(fieldNames) = 0)

\* isMultiSelect of handleFocusField
IsMultiSelect(modKey) == enhanced /\ modKey

\* the page handleFocusField's setPreviewPage updater returns
FocusPage(fieldName, current) ==
  IF /\ fieldName \in DOMAIN fieldMeta
     /\ fieldMeta[fieldName] # NullMeta
     /\ Truthy(fieldMeta[fieldName].page)
     /\ previewMeta.file_type = "pdf"
  THEN LET nextPage == ToNumber(fieldMeta[fieldName].page)
       IN  IF ~IsFinite(nextPage) \/ nextPage < 1 THEN current ELSE nextPage
  ELSE current

\* handleFocusField reading the modifier keys whatever the flag says
FocusIgnoresFlag(fieldName, modKey) ==
  /\ Rendered
  /\ Includes(fieldNames, fieldName)
  /\ activeField' = fieldName
  /\ previewPage' = FocusPage(fieldName, previewPage)
  /\ highlightsState' =
       SelectionVariant(highlightsState, buildHighlightForField(fieldName),
                        modKey, "ignoreFlag")
  /\ UNCHANGED <<enhanced, raf, viewVars, documentId, alive, loading, error, saving,
                 previewMeta, fieldVars, loads, saves>>

\* a click on a field row or on its Focus button, with or without Ctrl/Meta
handleFocusField(fieldName, modKey) ==
  /\ Rendered
  /\ Includes(fieldNames, fieldName)
  /\ activeField' = fieldName
  /\ previewPage' = FocusPage(fieldName, previewPage)
  /\ highlightsState' =
       updateSelectionFromField(highlightsState,
                                buildHighlightForField(fieldName),
                                IsMultiSelect(modKey))
  /\ UNCHANGED <<enhanced, raf, viewVars, documentId, alive, loading, error, saving,
                 previewMeta, fieldVars, loads, saves>>

\* the Clear button
clearHighlights ==
  /\ Rendered
  /\ enhanced
  /\ hasAnyBBox
  /\ Len(selectedHighlightIds) # 0
  /\ highlightsState' = IdleHighlights
  /\ UNCHANGED <<enhanced, raf, viewVars, documentId, alive, loading, error, saving,
                 previewVars, fieldVars, activeField, loads, saves>>

PageControls ==
  Rendered /\ previewMeta.file_type = "pdf" /\ previewMeta.page_count > 1

PageMinus ==
  /\ PageControls
  /\ ~(previewPage <= 1)
  /\ previewPage' = Max(1, previewPage - 1)
  /\ UNCHANGED <<enhanced, raf, viewVars, documentId, alive, loading, error, saving,
                 previewMeta, fieldVars, activeField, highlightsState,
                 loads, saves>>

PagePlus ==
  /\ PageControls
  /\ ~(previewPage >= OrElse(previewMeta.page_count, 1))
  /\ previewPage' = Min(OrElse(previewMeta.page_count, 1), previewPage + 1)
  /\ UNCHANGED <<enhanced, raf, viewVars, documentId, alive, loading, error, saving,
                 previewMeta, fieldVars, activeField, highlightsState,
                 loads, saves>>

\* ------------------------------------------------------------------------
\* The viewer
\* ------------------------------------------------------------------------

\* the page filter is applied whatever the file type
VisibleAlwaysFiltered ==
  LET Shown(item) ==
        /\ Includes(selectedHighlightIds, item.id)
        /\ ToNumber(OrElse(item.bbox.page, 1)) = previewPage
  IN  SelectSeq(highlights, Shown)

visibleHighlights ==
  LET IsSelected(item) == Includes(selectedHighlightIds, item.id)
      selected == SelectSeq(highlights, IsSelected)
      OnPage(item) == ToNumber(OrElse(item.bbox.page, 1)) = previewPage
  IN  IF previewMeta.file_type # "pdf" THEN selected
      ELSE SelectSeq(selected, OnPage)

\* the null result of primaryRect
NullRect == [isNull |-> TRUE]

primaryRect ==
  IF \/ primaryHighlight = NullHighlight
     \/ ~Truthy(imageMetrics.displayWidth)
     \/ ~Truthy(imageMetrics.displayHeight)
    THEN NullRect
  ELSE bboxToRect(primaryHighlight.bbox,
                  [displayWidth |-> imageMetrics.displayWidth,
                   displayHeight |-> imageMetrics.displayHeight,
                   naturalWidth |-> imageMetrics.naturalWidth,
                   naturalHeight |-> imageMetrics.naturalHeight,
                   bboxRelative |->
                     IF fieldMeta[primaryHighlight.fieldKey] = NullMeta
                       THEN "none"
                       ELSE fieldMeta[primaryHighlight.fieldKey].bbox_relative])

\* clientWidth and clientHeight of the scroll container
Container == [width |-> 300, height |-> 200]

\* the sizes an image may have: natural, and as laid out
ImageSizes ==
  { [naturalWidth |-> 200, naturalHeight |-> 100,
     displayWidth |-> 200, displayHeight |-> 100],
    [naturalWidth |-> 200, naturalHeight |-> 100,
     displayWidth |-> 400, displayHeight |-> 200] }

\* the sizes the image of document 6 may have; an image without intrinsic
\* dimensions has naturalWidth and naturalHeight 0
RectImageSizes ==
  ImageSizes \cup
  { [naturalWidth |-> 100, naturalHeight |-> 50,
     displayWidth |-> 200, displayHeight |-> 100],
    [naturalWidth |-> 0, naturalHeight |-> 0,
     displayWidth |-> 200, displayHeight |-> 100] }

\* onLoad of the preview image, which is rendered once a preview is available
ImgLoad(size) ==
  /\ Rendered
  /\ previewMeta.available
  /\ imageMetrics' = size
  /\ UNCHANGED <<enhanced, raf, documentId, alive, loading, error, saving,
                 previewVars, fieldVars, activeField, highlightsState,
                 autoZoomEnabled, zoomScale, viewerScroll, loads, saves>>

\* the Auto-zoom checkbox without the effect that resets the zoom
SetAutoZoomKeepsZoom(checked) ==
  /\ Rendered
  /\ enhanced
  /\ hasAnyBBox
  /\ checked # autoZoomEnabled
  /\ autoZoomEnabled' = checked
  /\ UNCHANGED <<enhanced, raf, documentId, alive, loading, error, saving,
                 previewVars, fieldVars, activeField, highlightsState,
                 zoomScale, imageMetrics, viewerScroll, loads, saves>>

\* the Auto-zoom checkbox, and the effect that resets the zoom when it is off
SetAutoZoom(checked) ==
  /\ Rendered
  /\ enhanced
  /\ hasAnyBBox
  /\ checked # autoZoomEnabled
  /\ autoZoomEnabled' = checked
  /\ zoomScale' = IF ~checked THEN 100 ELSE zoomScale
  /\ UNCHANGED <<enhanced, raf, documentId, alive, loading, error, saving,
                 previewVars, fieldVars, activeField, highlightsState,
                 imageMetrics, viewerScroll, loads, saves>>

\* the sizes getBoundingClientRect may report for the image
DisplaySizes ==
  { [width |-> 200, height |-> 100], [width |-> 400, height |-> 200],
    [width |-> 0, height |-> 0] }

\* the preview image is in the document: imageRef.current is not null
ImageMounted == Rendered /\ previewMeta.available

\* the updater without ...prev: the natural size is lost
MeasuredWithoutSpread(prev, rect) ==
  [displayWidth |-> rect.width, displayHeight |-> rect.height,
   naturalWidth |-> Undefined, naturalHeight |-> Undefined]

\* the updater of onResize and of the animation frame callback
Measured(prev, rect) ==
  [prev EXCEPT !.displayWidth = rect.width, !.displayHeight = rect.height]

\* the window's resize listener, when the image is in the document
onResize(rect) ==
  /\ alive
  /\ ImageMounted
  /\ imageMetrics' = Measured(imageMetrics, rect)
  /\ UNCHANGED <<enhanced, raf, documentId, alive, loading, error, saving,
                 previewVars, fieldVars, activeField, highlightsState,
                 autoZoomEnabled, zoomScale, viewerScroll, loads, saves>>

\* the animation frame requested after a change of the preview url, of the
\* page or of the zoom, when the image is in the document
RafRemeasure(rect) ==
  /\ alive
  /\ ImageMounted
  /\ imageMetrics' = Measured(imageMetrics, rect)
  /\ UNCHANGED <<enhanced, raf, documentId, alive, loading, error, saving,
                 previewVars, fieldVars, activeField, highlightsState,
                 autoZoomEnabled, zoomScale, viewerScroll, loads, saves>>

\* cancelAnimationFrame on the frames requested: a cancelled frame is known
\* by its flag alone
Cancelled(frames) ==
  {[deps |-> [url |-> NoUrl, page |-> 0, zoom |-> 0], cancelled |-> TRUE] :
     f \in frames}

\* previewUrl, which an effect builds from documentId and previewPage when a
\* preview is available
previewUrl ==
  IF previewMeta.available THEN <<documentId, previewPage>> ELSE NoUrl

\* the dependencies of the re-measure effect in the current render
RemeasureDeps == [url |-> previewUrl, page |-> previewPage, zoom |-> zoomScale]

\* the re-measure effect without its cleanup
RemeasureKeepsFrames ==
  /\ alive
  /\ RemeasureDeps # raf.deps
  /\ raf' = [deps |-> RemeasureDeps,
             frames |->
               raf.frames \cup
               (IF previewUrl = NoUrl THEN {}
                ELSE {[deps |-> RemeasureDeps, cancelled |-> FALSE]})]
  /\ UNCHANGED <<enhanced, documentId, alive, loading, error, saving,
                 previewVars, fieldVars, activeField, highlightsState,
                 viewVars, loads, saves>>

\* the re-measure effect, run again after a render that changed one of its
\* dependencies: the cleanup of its previous run, then the request of a frame
RemeasureEffect ==
  /\ alive
  /\ RemeasureDeps # raf.deps
  /\ raf' = [deps |-> RemeasureDeps,
             frames |->
               Cancelled(raf.frames) \cup
               (IF previewUrl = NoUrl THEN {}
                ELSE {[deps |-> RemeasureDeps, cancelled |-> FALSE]})]
  /\ UNCHANGED <<enhanced, documentId, alive, loading, error, saving,
                 previewVars, fieldVars, activeField, highlightsState,
                 viewVars, loads, saves>>

\* the browser comes to a requested frame: it runs the callback unless the
\* frame was cancelled, and the callback measures the image if there is one
RafCallback(frame, rect) ==
  /\ frame \in raf.frames
  /\ raf' = [raf EXCEPT !.frames = raf.frames \ {frame}]
  /\ imageMetrics' = IF ~frame.cancelled /\ ImageMounted
                       THEN Measured(imageMetrics, rect)
                       ELSE imageMetrics
  /\ UNCHANGED <<enhanced, documentId, alive, loading, error, saving,
                 previewVars, fieldVars, activeField, highlightsState,
                 autoZoomEnabled, zoomScale, viewerScroll, loads, saves>>

\* the auto-zoom effect in a container of the given client size, when it has
\* a zoom to set
AutoZoomEffectIn(viewport) ==
  /\ alive
  /\ Rendered
  /\ enhanced /\ autoZoomEnabled /\ hasAnyBBox
  /\ primaryRect # NullRect
  /\ zoomScale' = computeZoomToFit(primaryRect, viewport, 20, 100, 300)
  /\ zoomScale' # zoomScale
  /\ UNCHANGED <<enhanced, raf, documentId, alive, loading, error, saving,
                 previewVars, fieldVars, activeField, highlightsState,
                 autoZoomEnabled, imageMetrics, viewerScroll, loads, saves>>

AutoZoomEffect == AutoZoomEffectIn(Container)

\* the layouts the scroll container may have: its client size and the size
\* of its content, which is never smaller
ContainerInputs ==
  { [clientWidth |-> 300, clientHeight |-> 200,
     scrollWidth |-> 300, scrollHeight |-> 200],
    [clientWidth |-> 300, clientHeight |-> 200,
     scrollWidth |-> 900, scrollHeight |-> 450],
    [clientWidth |-> 800, clientHeight |-> 600,
     scrollWidth |-> 800, scrollHeight |-> 600],
    [clientWidth |-> 0, clientHeight |-> 0,
     scrollWidth |-> 0, scrollHeight |-> 0] }

\* the centre of a rectangle, in half pixels
rectCenter(rect) ==
  [x |-> 2 * rect.left + rect.width, y |-> 2 * rect.top + rect.height]

\* the auto-scroll effect centring the rectangle without clamp
ScrollWithoutClamp(rect, container) ==
  LET center == rectCenter(rect)
  IN  [container |-> container,
       top |-> center.y - container.clientHeight,
       left |-> center.x - container.clientWidth]

\* the options of the auto-scroll effect's scrollTo, in half pixels
ScrollTarget(rect, container) ==
  LET center == rectCenter(rect)
      nextTop ==
        clamp(center.y - container.clientHeight, 0,
              2 * Max(container.scrollHeight - container.clientHeight, 0))
      nextLeft ==
        clamp(center.x - container.clientWidth, 0,
              2 * Max(container.scrollWidth - container.clientWidth, 0))
  IN  [container |-> container, top |-> nextTop, left |-> nextLeft]

\* the auto-scroll effect, on a container of the given layout
AutoScrollEffect(container) ==
  /\ alive
  /\ Rendered
  /\ enhanced /\ primaryRect # NullRect /\ hasAnyBBox
  /\ viewerScroll' = ScrollTarget(primaryRect, container)
  /\ UNCHANGED <<enhanced, raf, documentId, alive, loading, error, saving,
                 previewVars, fieldVars, activeField, highlightsState,
                 autoZoomEnabled, zoomScale, imageMetrics, loads, saves>>

\* ------------------------------------------------------------------------
\* Save
\* ------------------------------------------------------------------------

\* the updaters without ...prev: the other values and corrections are lost
ChangeFieldWithoutSpread(fieldName, nextValue) ==
  /\ Rendered
  /\ Includes(fieldNames, fieldName)
  /\ fieldValues' = (fieldName :> nextValue)
  /\ userCorrectedFields' = (fieldName :> Scalar(nextValue))
  /\ UNCHANGED <<enhanced, raf, viewVars, documentId, alive, loading, error, saving,
                 status, previewVars, fieldNames, fieldMeta, rawFields,
                 normalizedFields, activeField, highlightsState, loads, saves>>

\* an edit of a field's input
handleChangeField(fieldName, nextValue) ==
  /\ Rendered
  /\ Includes(fieldNames, fieldName)
  /\ fieldValues' = (fieldName :> nextValue) @@ fieldValues
  /\ userCorrectedFields' = (fieldName :> Scalar(nextValue)) @@ userCorrectedFields
  /\ UNCHANGED <<enhanced, raf, viewVars, documentId, alive, loading, error, saving,
                 status, previewVars, fieldNames, fieldMeta, rawFields,
                 normalizedFields, activeField, highlightsState, loads, saves>>

\* the normalized_fields map of a save request
buildNormalizedPayload ==
  LET Entry(fieldName) ==
        LET meta == fieldMeta[fieldName]
        IN  IF meta = NullMeta
              THEN [Obj(fieldValues[fieldName], NoBBox, 1) EXCEPT
                      !.confidence = Null]
              ELSE [Obj(fieldValues[fieldName], meta.bbox,
                        IF meta.page = Null THEN 1 ELSE meta.page) EXCEPT
                      !.confidence = meta.confidence,
                      !.bbox_relative = meta.bbox_relative]
  IN  [fieldName \in SeqToSet(fieldNames) |-> Entry(fieldName)] @@ normalizedFields

\* the request saveReviewDocument sends
SaveRequest(nextStatus) ==
  [doc |-> documentId,
   userCorrectedFields |-> userCorrectedFields,
   normalizedFields |-> buildNormalizedPayload,
   status |-> nextStatus]

\* handleSave called whether or not a save is in flight
SaveWhileSaving(nextStatus) ==
  /\ Rendered
  /\ saving' = TRUE
  /\ error' = ""
  /\ saves' = saves \cup {SaveRequest(nextStatus)}
  /\ UNCHANGED <<enhanced, raf, viewVars, documentId, alive, loading, previewVars,
                 fieldVars, activeField, highlightsState, loads>>

\* the Save and Validate buttons (disabled while saving): handleSave up to
\* its await
handleSave(nextStatus) ==
  /\ Rendered
  /\ ~saving
  /\ saving' = TRUE
  /\ error' = ""
  /\ saves' = saves \cup {SaveRequest(nextStatus)}
  /\ UNCHANGED <<enhanced, raf, viewVars, documentId, alive, loading, previewVars,
                 fieldVars, activeField, highlightsState, loads>>

\* the fields the state holds after a payload has been applied
CommitFields(payload) ==
  /\ rawFields' = payload.raw_extracted_fields
  /\ normalizedFields' = payload.normalized_fields
  /\ userCorrectedFields' = payload.user_corrected_fields
  /\ fieldNames' = ReconcileNames(payload)
  /\ fieldValues' = ReconcileValues(payload)
  /\ fieldMeta' = ReconcileMeta(payload)

\* the answer is merged under the corrections typed since the request
SaveOkKeepsEdits(s, pid) ==
  /\ s \in saves
  /\ pid \in DocPayloads(s.doc)
  /\ saves' = saves \ {s}
  /\ IF alive
       THEN /\ rawFields' = Store[pid].raw_extracted_fields
            /\ normalizedFields' = Store[pid].normalized_fields
            /\ userCorrectedFields' =
                 userCorrectedFields @@ Store[pid].user_corrected_fields
            /\ fieldNames' = ReconcileNames(Store[pid])
            /\ fieldValues' =
                 [name \in DOMAIN ReconcileValues(Store[pid]) |->
                    IF name \in DOMAIN userCorrectedFields
                      THEN readValue(userCorrectedFields[name])
                      ELSE ReconcileValues(Store[pid])[name]]
            /\ fieldMeta' = ReconcileMeta(Store[pid])
            /\ status' = IF Store[pid].status # "" THEN Store[pid].status
                         ELSE s.status
            /\ saving' = FALSE
       ELSE UNCHANGED <<fieldVars, saving>>
  /\ UNCHANGED <<enhanced, raf, viewVars, documentId, alive, loading, error,
                 previewVars, activeField, highlightsState, loads>>

\* saveReviewDocument resolves: the rest of handleSave's try, and finally.
\* React drops the state updates of an unmounted component.
SaveOk(s, pid) ==
  /\ s \in saves
  /\ pid \in DocPayloads(s.doc)
  /\ saves' = saves \ {s}
  /\ IF alive
       THEN /\ CommitFields(Store[pid])
            /\ status' = IF Store[pid].status # "" THEN Store[pid].status
                         ELSE s.status
            /\ saving' = FALSE
       ELSE UNCHANGED <<fieldVars, saving>>
  /\ UNCHANGED <<enhanced, raf, viewVars, documentId, alive, loading, error,
                 previewVars, activeField, highlightsState, loads>>

\* a failed save puts the fields back to what the server last sent
SaveFailRollsBack(s) ==
  /\ s \in saves
  /\ saves' = saves \ {s}
  /\ IF alive
       THEN /\ error' = "Save failed"
            /\ saving' = FALSE
            /\ userCorrectedFields' = s.userCorrectedFields
            /\ UNCHANGED <<fieldNames, fieldValues, fieldMeta, rawFields,
                           normalizedFields, status>>
       ELSE UNCHANGED <<error, saving, fieldVars>>
  /\ UNCHANGED <<enhanced, raf, viewVars, documentId, alive, loading, previewVars,
                 activeField, highlightsState, loads>>

\* saveReviewDocument rejects: catch and finally
SaveFail(s) ==
  /\ s \in saves
  /\ saves' = saves \ {s}
  /\ IF alive
       THEN error' = "Save failed" /\ saving' = FALSE
       ELSE UNCHANGED <<error, saving>>
  /\ UNCHANGED <<enhanced, raf, viewVars, documentId, alive, loading, previewVars,
                 fieldVars, activeField, highlightsState, loads>>

\* the badge shown next to each field
badgeByField ==
  [fieldName \in SeqToSet(fieldNames) |->
     IF fieldName \in DOMAIN userCorrectedFields THEN "corrected" ELSE "raw"]

\* ------------------------------------------------------------------------
\* The load effect
\* ------------------------------------------------------------------------

MaxLoads == 2

\* what the callbacks of a load may write
pageState == <<loading, error, status, previewMeta, previewPage, fieldNames,
               fieldValues, fieldMeta, rawFields, normalizedFields,
               userCorrectedFields, activeField, highlightsState, zoomScale>>

\* the cleanup of the effect that is current
Cleanup == {[r EXCEPT !.mounted = FALSE] : r \in loads}

\* the documentId prop changes: cleanup of the previous effect, then the effect
ChangeDocument(d) ==
  /\ alive
  /\ d # documentId
  /\ Cardinality(loads) < MaxLoads
  /\ documentId' = d
  /\ loads' = Cleanup \cup {NewLoad(d)}
  /\ loading' = TRUE
  /\ error' = ""
  /\ UNCHANGED <<enhanced, raf, viewVars, alive, saving, previewVars, fieldVars, activeField,
                 highlightsState, saves>>

Unmount ==
  /\ alive
  /\ alive' = FALSE
  /\ loads' = Cleanup
  /\ raf' = [raf EXCEPT !.frames = Cancelled(raf.frames)]
  /\ UNCHANGED <<enhanced, viewVars, documentId, loading, error, saving, previewVars,
                 fieldVars, activeField, highlightsState, saves>>

\* the callbacks do not look at the mounted flag
NeverStale(r) == TRUE

\* the closure's mounted flag, as the callbacks read it
StillMounted(r) == r.mounted

\* the document fetch alone fulfils the load
DocAloneFulfils(r) == r.docRes = "ok"

\* Promise.all fulfils once both fetches have
AllFulfilled(r) == r.docRes = "ok" /\ r.metaRes = "ok"

\* a load commits the fields and the preview and leaves the view as it was
LoadThenKeepsView(r, pid) ==
  IF r.mounted
    THEN /\ CommitFields(Store[pid])
         /\ status' = IF Store[pid].status # "" THEN Store[pid].status
                      ELSE "in_review"
         /\ previewMeta' = PreviewMetaOf(r.doc)
         /\ loading' = FALSE
         /\ UNCHANGED <<error, previewPage, activeField, highlightsState,
                        zoomScale>>
    ELSE UNCHANGED pageState

\* .then of the load, followed by .finally
LoadThen(r, pid) ==
  IF StillMounted(r)
    THEN /\ CommitFields(Store[pid])
         /\ status' = IF Store[pid].status # "" THEN Store[pid].status
                      ELSE "in_review"
         /\ previewMeta' = IF r.metaRes = "ok" THEN PreviewMetaOf(r.doc)
                           ELSE InitialPreviewMeta
         /\ previewPage' = 1
         /\ activeField' = ""
         /\ highlightsState' = IdleHighlights
         /\ zoomScale' = 100
         /\ loading' = FALSE
         /\ UNCHANGED error
    ELSE UNCHANGED pageState

\* .catch of the load, followed by .finally
LoadCatch(r) ==
  IF StillMounted(r)
    THEN /\ error' = "Failed to load review data"
         /\ loading' = FALSE
         /\ UNCHANGED <<previewVars, fieldVars, activeField, highlightsState,
                        zoomScale>>
    ELSE UNCHANGED pageState

\* A fetch of a load is answered; Promise.all fulfils with the second answer.
\* The document payload is read by the .then callback alone, so the model
\* draws it when that callback runs.
Fulfil(r, r2, pid) ==
  /\ IF AllFulfilled(r2)
       THEN LoadThen(r2, pid) /\ loads' = loads \ {r}
       ELSE UNCHANGED pageState /\ loads' = (loads \ {r}) \cup {r2}
  /\ UNCHANGED <<enhanced, raf, documentId, alive, saving, autoZoomEnabled,
                 imageMetrics, viewerScroll, saves>>

DocFetchOk(r, pid) ==
  /\ r \in loads
  /\ r.docRes = "pending"
  /\ pid \in DocPayloads(r.doc)
  /\ Fulfil(r, [r EXCEPT !.docRes = "ok"], pid)

MetaFetchOk(r, pid) ==
  /\ r \in loads
  /\ r.metaRes = "pending"
  /\ pid \in DocPayloads(r.doc)
  /\ Fulfil(r, [r EXCEPT !.metaRes = "ok"], pid)

\* a failed load is issued again
RejectRetries(r) ==
  /\ loads' = (loads \ {r}) \cup {NewLoad(r.doc)}
  /\ UNCHANGED pageState
  /\ UNCHANGED <<enhanced, raf, documentId, alive, saving, autoZoomEnabled,
                 imageMetrics, viewerScroll, saves>>

\* a fetch of a load fails; Promise.all rejects with the first failure, and
\* the answer to the other fetch has no callback left
Reject(r) ==
  /\ LoadCatch(r)
  /\ loads' = loads \ {r}
  /\ UNCHANGED <<enhanced, raf, documentId, alive, saving, autoZoomEnabled,
                 imageMetrics, viewerScroll, saves>>

DocFetchFail(r) ==
  /\ r \in loads
  /\ r.docRes = "pending"
  /\ Reject(r)

MetaFetchFail(r) ==
  /\ r \in loads
  /\ r.metaRes = "pending"
  /\ Reject(r)

\* ------------------------------------------------------------------------
\* Specifications
\* ------------------------------------------------------------------------

FieldNameInputs == SeqToSet(SortedNames)

\* history: the event of the step
Log(e) == ev' = e /\ UNCHANGED toggle

\* The page with its user events, its saves and its loads; the user
\* navigates to another document only when no load is in flight, types no
\* correction and saves with the Save button; the preview image does not
\* load.
Next ==
  \/ \E fieldName \in FieldNameInputs, modKey \in BOOLEAN :
       /\ handleFocusField(fieldName, modKey)
       /\ Log(Event("focus", fieldName, modKey, NoReq))
  \/ clearHighlights /\ Log(UiEvent("clear"))
  \/ PageMinus /\ Log(UiEvent("pageMinus"))
  \/ PagePlus /\ Log(UiEvent("pagePlus"))
  \/ handleSave("in_review") /\ Log(UiEvent("save"))
  \/ \E s \in saves : \E pid \in DocPayloads(s.doc) :
       SaveOk(s, pid) /\ Log(UiEvent("saveOk"))
  \/ \E s \in saves : SaveFail(s) /\ Log(UiEvent("saveFail"))
  \/ \E d \in DocIds :
       loads = {} /\ ChangeDocument(d) /\ Log(UiEvent("changeDoc"))
  \/ \E r \in loads : \E pid \in DocPayloads(r.doc) :
       DocFetchOk(r, pid) /\ Log(Event("docOk", "", FALSE, r))
  \/ \E r \in loads : \E pid \in DocPayloads(r.doc) :
       MetaFetchOk(r, pid) /\ Log(Event("metaOk", "", FALSE, r))
  \/ \E r \in loads : DocFetchFail(r) /\ Log(Event("docFail", "", FALSE, r))
  \/ \E r \in loads : MetaFetchFail(r) /\ Log(Event("metaFail", "", FALSE, r))

Spec == Init /\ [][Next]_vars

\* History: progress of the sequence focus A, multi-select focus B # A,
\* multi-select focus A, where A and B have a candidate highlight and no step
\* in between touches the metadata or the highlights.
ToggleAfterFocus(fieldName, isMultiSelect, hasCandidate) ==
  IF ~isMultiSelect
    THEN IF hasCandidate THEN [step |-> 1, a |-> fieldName, b |-> ""]
         ELSE NoToggle
  ELSE IF toggle.step = 1 /\ fieldName # toggle.a /\ hasCandidate
    THEN [step |-> 2, a |-> toggle.a, b |-> fieldName]
  ELSE IF toggle.step = 2 /\ fieldName = toggle.a
    THEN [step |-> 3, a |-> toggle.a, b |-> toggle.b]
  ELSE NoToggle

TrackFocus(fieldName, modKey) ==
  /\ toggle' = ToggleAfterFocus(fieldName, enhanced /\ modKey,
                                buildHighlightForField(fieldName) # NullHighlight)
  /\ UNCHANGED ev

TrackOther ==
  /\ toggle' = IF fieldMeta' # fieldMeta \/ highlightsState' # highlightsState
               THEN NoToggle ELSE toggle
  /\ UNCHANGED ev

\* The page of a document that loads, with focus, Clear and save.
NextToggle ==
  \/ \E fieldName \in FieldNameInputs, modKey \in BOOLEAN :
       handleFocusField(fieldName, modKey) /\ TrackFocus(fieldName, modKey)
  \/ clearHighlights /\ TrackOther
  \/ handleSave("in_review") /\ TrackOther
  \/ \E s \in saves : \E pid \in DocPayloads(s.doc) : SaveOk(s, pid) /\ TrackOther
  \/ \E r \in loads : \E pid \in DocPayloads(r.doc) : DocFetchOk(r, pid) /\ TrackOther
  \/ \E r \in loads : \E pid \in DocPayloads(r.doc) : MetaFetchOk(r, pid) /\ TrackOther

SpecToggle == Init /\ [][NextToggle]_vars

\* The load effect under navigation and unmount, up to MaxLoads loads in
\* flight, with single-select focus.
NextLoad ==
  \/ \E fieldName \in FieldNameInputs :
       /\ handleFocusField(fieldName, FALSE)
       /\ Log(Event("focus", fieldName, FALSE, NoReq))
  \/ \E d \in DocIds : ChangeDocument(d) /\ Log(UiEvent("changeDoc"))
  \/ Unmount /\ Log(UiEvent("unmount"))
  \/ \E r \in loads : \E pid \in DocPayloads(r.doc) :
       DocFetchOk(r, pid) /\ Log(Event("docOk", "", FALSE, r))
  \/ \E r \in loads : \E pid \in DocPayloads(r.doc) :
       MetaFetchOk(r, pid) /\ Log(Event("metaOk", "", FALSE, r))
  \/ \E r \in loads : DocFetchFail(r) /\ Log(Event("docFail", "", FALSE, r))
  \/ \E r \in loads : MetaFetchFail(r) /\ Log(Event("metaFail", "", FALSE, r))

SpecLoad == Init /\ [][NextLoad]_vars

EditInputs == {"email", "total"}

ValueInputs == {"zz"}

StatusButtons == {"in_review", "validated"}

\* history: a correction was typed after the request s was sent
EditedSince(s) == userCorrectedFields # s.userCorrectedFields

\* The page under corrections and saves with both buttons, with
\* single-select focus; the user navigates only when no load is in flight.
NextSave ==
  \/ \E fieldName \in FieldNameInputs :
       /\ handleFocusField(fieldName, FALSE)
       /\ Log(Event("focus", fieldName, FALSE, NoReq))
  \/ \E fieldName \in EditInputs, nextValue \in ValueInputs :
       /\ handleChangeField(fieldName, nextValue)
       /\ Log(Event("edit", fieldName, FALSE, NoReq))
  \/ \E nextStatus \in StatusButtons :
       handleSave(nextStatus) /\ Log(UiEvent("save"))
  \/ \E s \in saves : \E pid \in DocPayloads(s.doc) :
       SaveOk(s, pid) /\ Log(Event("saveOk", "", EditedSince(s), s))
  \/ \E s \in saves :
       SaveFail(s) /\ Log(Event("saveFail", "", EditedSince(s), s))
  \/ \E d \in DocIds :
       loads = {} /\ ChangeDocument(d) /\ Log(UiEvent("changeDoc"))
  \/ \E r \in loads : \E pid \in DocPayloads(r.doc) :
       DocFetchOk(r, pid) /\ Log(Event("docOk", "", FALSE, r))
  \/ \E r \in loads : \E pid \in DocPayloads(r.doc) :
       MetaFetchOk(r, pid) /\ Log(Event("metaOk", "", FALSE, r))

SpecSave == Init /\ [][NextSave]_vars

\* history: the page shows a highlight, an active field, a page other than
\* the first and a zoom
ViewInUse ==
  /\ highlightsState # IdleHighlights
  /\ activeField # ""
  /\ previewPage # 1
  /\ zoomScale # 100

\* The viewer: the preview image loads, the user focuses fields, switches
\* auto-zoom and navigates when no load is in flight.
NextView ==
  \/ \E fieldName \in FieldNameInputs :
       /\ handleFocusField(fieldName, FALSE)
       /\ Log(Event("focus", fieldName, FALSE, NoReq))
  \/ \E size \in ImageSizes : ImgLoad(size) /\ Log(UiEvent("imgLoad"))
  \/ \E checked \in BOOLEAN :
       SetAutoZoom(checked) /\ Log(UiEvent("setAutoZoom"))
  \/ AutoZoomEffect /\ Log(UiEvent("autoZoom"))
  \/ \E d \in DocIds :
       loads = {} /\ ChangeDocument(d) /\ Log(UiEvent("changeDoc"))
  \/ \E r \in loads : \E pid \in DocPayloads(r.doc) :
       DocFetchOk(r, pid) /\ Log(Event("docOk", "", ViewInUse, r))
  \/ \E r \in loads : \E pid \in DocPayloads(r.doc) :
       MetaFetchOk(r, pid) /\ Log(Event("metaOk", "", ViewInUse, r))

SpecView == Init /\ [][NextView]_vars

\* The page of document 5, whose field carries any validation state, under
\* focus events.
NextStatus ==
  \/ \E fieldName \in FieldNameInputs, modKey \in BOOLEAN :
       /\ handleFocusField(fieldName, modKey)
       /\ Log(Event("focus", fieldName, modKey, NoReq))
  \/ \E r \in loads : \E pid \in DocPayloads(r.doc) :
       DocFetchOk(r, pid) /\ Log(Event("docOk", "", FALSE, r))
  \/ \E r \in loads : \E pid \in DocPayloads(r.doc) :
       MetaFetchOk(r, pid) /\ Log(Event("metaOk", "", FALSE, r))

SpecStatus == InitOf(StatusDocIds) /\ [][NextStatus]_vars

\* The pages of documents 3 and 4, whose field montant carries any geometry,
\* under focus events, page controls and corrections.
NextGeom ==
  \/ \E fieldName \in FieldNameInputs, modKey \in BOOLEAN :
       /\ handleFocusField(fieldName, modKey)
       /\ Log(Event("focus", fieldName, modKey, NoReq))
  \/ PageMinus /\ Log(UiEvent("pageMinus"))
  \/ PagePlus /\ Log(UiEvent("pagePlus"))
  \/ \E nextValue \in ValueInputs :
       /\ handleChangeField("montant", nextValue)
       /\ Log(Event("edit", "montant", FALSE, NoReq))
  \/ \E r \in loads : \E pid \in DocPayloads(r.doc) :
       DocFetchOk(r, pid) /\ Log(Event("docOk", "", FALSE, r))
  \/ \E r \in loads : \E pid \in DocPayloads(r.doc) :
       MetaFetchOk(r, pid) /\ Log(Event("metaOk", "", FALSE, r))

SpecGeom == InitOf(GeomDocIds) /\ [][NextGeom]_vars

\* history: auto-zoom was switched off while the zoom was not 1 and has been
\* off since, the step included
OffSince(switchedOff) ==
  IF switchedOff THEN zoomScale # 100 ELSE ev.mod /\ ~autoZoomEnabled'

LogZoom(op, switchedOff) == Log(Event(op, "", OffSince(switchedOff), NoReq))

\* The viewer of documents 1 and 2 with every event that acts on it: the
\* image loads and is measured again on a resize and after a paint, the user
\* focuses fields, clears, changes page, switches auto-zoom and navigates when
\* no load is in flight.
NextZoom ==
  \/ \E fieldName \in FieldNameInputs :
       handleFocusField(fieldName, FALSE) /\ LogZoom("focus", FALSE)
  \/ clearHighlights /\ LogZoom("clear", FALSE)
  \/ PageMinus /\ LogZoom("pageMinus", FALSE)
  \/ PagePlus /\ LogZoom("pagePlus", FALSE)
  \/ \E size \in ImageSizes : ImgLoad(size) /\ LogZoom("imgLoad", FALSE)
  \/ \E rect \in DisplaySizes : onResize(rect) /\ LogZoom("resize", FALSE)
  \/ \E rect \in DisplaySizes :
       RafRemeasure(rect) /\ LogZoom("remeasure", FALSE)
  \/ \E checked \in BOOLEAN :
       SetAutoZoom(checked) /\ LogZoom("setAutoZoom", ~checked)
  \/ AutoZoomEffect /\ LogZoom("autoZoom", FALSE)
  \/ \E d \in DocIds :
       loads = {} /\ ChangeDocument(d) /\ LogZoom("changeDoc", FALSE)
  \/ \E r \in loads : \E pid \in DocPayloads(r.doc) :
       DocFetchOk(r, pid) /\ LogZoom("docOk", FALSE)
  \/ \E r \in loads : \E pid \in DocPayloads(r.doc) :
       MetaFetchOk(r, pid) /\ LogZoom("metaOk", FALSE)

SpecZoom == Init /\ [][NextZoom]_vars

\* the effects of the latest render have run: React runs them before it
\* handles another event
EffectsFlushed == RemeasureDeps = raf.deps

\* the image as it loads at zoom 1
LoadedSize ==
  [naturalWidth |-> 200, naturalHeight |-> 100,
   displayWidth |-> 200, displayHeight |-> 100]

\* The viewer of documents 1 and 2 with the re-measure effect and the frames
\* it requests: the user focuses fields, changes page, switches auto-zoom,
\* navigates when no load is in flight and leaves the page; the browser
\* comes to a frame at any time.
NextRaf ==
  \/ \E fieldName \in FieldNameInputs :
       /\ EffectsFlushed
       /\ handleFocusField(fieldName, FALSE)
       /\ Log(Event("focus", fieldName, FALSE, NoReq))
  \/ EffectsFlushed /\ PageMinus /\ Log(UiEvent("pageMinus"))
  \/ EffectsFlushed /\ PagePlus /\ Log(UiEvent("pagePlus"))
  \/ EffectsFlushed /\ ImgLoad(LoadedSize) /\ Log(UiEvent("imgLoad"))
  \/ \E checked \in BOOLEAN :
       EffectsFlushed /\ SetAutoZoom(checked) /\ Log(UiEvent("setAutoZoom"))
  \/ EffectsFlushed /\ AutoZoomEffect /\ Log(UiEvent("autoZoom"))
  \/ \E d \in DocIds :
       /\ EffectsFlushed
       /\ loads = {}
       /\ ChangeDocument(d)
       /\ Log(UiEvent("changeDoc"))
  \/ EffectsFlushed /\ Unmount /\ Log(UiEvent("unmount"))
  \/ \E r \in loads : \E pid \in DocPayloads(r.doc) :
       /\ EffectsFlushed
       /\ DocFetchOk(r, pid)
       /\ Log(Event("docOk", "", FALSE, r))
  \/ \E r \in loads : \E pid \in DocPayloads(r.doc) :
       /\ EffectsFlushed
       /\ MetaFetchOk(r, pid)
       /\ Log(Event("metaOk", "", FALSE, r))
  \/ RemeasureEffect /\ Log(UiEvent("remeasureEffect"))
  \/ \E frame \in raf.frames :
       /\ RafCallback(frame, [width |-> 400, height |-> 200])
       /\ Log(Event("raf", "", frame.cancelled, NoReq))

SpecRaf == Init /\ [][NextRaf]_vars

\* the client size of a container layout, as the auto-zoom effect reads it
\* the scroll container in which the image is larger than the viewport
ScrollingContainer ==
  [clientWidth |-> 300, clientHeight |-> 200,
   scrollWidth |-> 900, scrollHeight |-> 450]

\* The viewer of documents 1 and 2 with its page controls and both effects
\* of the primary rectangle: the image loads, the user focuses fields,
\* clears, changes page and switches auto-zoom, and the zoom and scroll
\* effects run.
NextScroll ==
  \/ \E fieldName \in FieldNameInputs, modKey \in BOOLEAN :
       /\ handleFocusField(fieldName, modKey)
       /\ Log(Event("focus", fieldName, modKey, NoReq))
  \/ clearHighlights /\ Log(UiEvent("clear"))
  \/ PageMinus /\ Log(UiEvent("pageMinus"))
  \/ PagePlus /\ Log(UiEvent("pagePlus"))
  \/ ImgLoad(LoadedSize) /\ Log(UiEvent("imgLoad"))
  \/ \E checked \in BOOLEAN :
       SetAutoZoom(checked) /\ Log(UiEvent("setAutoZoom"))
  \/ AutoZoomEffect /\ Log(UiEvent("autoZoom"))
  \/ AutoScrollEffect(ScrollingContainer) /\ Log(UiEvent("autoScroll"))
  \/ \E r \in loads : \E pid \in DocPayloads(r.doc) :
       DocFetchOk(r, pid) /\ Log(Event("docOk", "", FALSE, r))
  \/ \E r \in loads : \E pid \in DocPayloads(r.doc) :
       MetaFetchOk(r, pid) /\ Log(Event("metaOk", "", FALSE, r))

SpecScroll == Init /\ [][NextScroll]_vars

\* the box the layout gives the image: the image fills its wrap, whose width
\* is max(zoomScale, 1) times that of the scroll container, and keeps the
\* proportions of the picture, 200 by 100
LayoutRect ==
  LET width == (Max(zoomScale, 100) * Container.width) \div 100
  IN  [width |-> width, height |-> (width * 100) \div 200]

\* the image as it loads in the layout of the moment
LaidOutSize ==
  [naturalWidth |-> 200, naturalHeight |-> 100,
   displayWidth |-> LayoutRect.width, displayHeight |-> LayoutRect.height]

\* The steps of the loop of the zoom: the re-measure effect requests a frame,
\* the frame measures the image in the layout of the moment, and the
\* auto-zoom effect sets the zoom that fits the primary rectangle.
ZoomLoop ==
  \/ RemeasureEffect /\ Log(UiEvent("remeasureEffect"))
  \/ \E frame \in raf.frames :
       /\ RafCallback(frame, LayoutRect)
       /\ Log(Event("raf", "", frame.cancelled, NoReq))
  \/ AutoZoomEffect /\ Log(UiEvent("autoZoom"))

\* The viewer of documents 1 and 2 in a layout where the size of the image
\* follows the zoom: the user focuses fields and switches auto-zoom, the
\* image loads, and the loop of the zoom runs.
NextLoop ==
  \/ \E fieldName \in FieldNameInputs :
       /\ EffectsFlushed
       /\ handleFocusField(fieldName, FALSE)
       /\ Log(Event("focus", fieldName, FALSE, NoReq))
  \/ EffectsFlushed /\ ImgLoad(LaidOutSize) /\ Log(UiEvent("imgLoad"))
  \/ \E checked \in BOOLEAN :
       EffectsFlushed /\ SetAutoZoom(checked) /\ Log(UiEvent("setAutoZoom"))
  \/ \E r \in loads : \E pid \in DocPayloads(r.doc) :
       /\ EffectsFlushed
       /\ DocFetchOk(r, pid)
       /\ Log(Event("docOk", "", FALSE, r))
  \/ \E r \in loads : \E pid \in DocPayloads(r.doc) :
       /\ EffectsFlushed
       /\ MetaFetchOk(r, pid)
       /\ Log(Event("metaOk", "", FALSE, r))
  \/ ZoomLoop

\* React runs the effects of every render and the browser comes to every
\* frame requested: a step of the loop that stays possible is taken
SpecLoop == Init /\ [][NextLoop]_vars /\ WF_vars(ZoomLoop)

ViewportOf(container) ==
  [width |-> container.clientWidth, height |-> container.clientHeight]

\* The viewer of document 6, whose field montant carries any box and any
\* bbox_relative: the image loads with any size, the user focuses fields and
\* switches auto-zoom, and the zoom and scroll effects run in a container of
\* any layout.
NextRect ==
  \/ \E fieldName \in {"montant", "date"} :
       /\ handleFocusField(fieldName, FALSE)
       /\ Log(Event("focus", fieldName, FALSE, NoReq))
  \/ \E size \in RectImageSizes : ImgLoad(size) /\ Log(UiEvent("imgLoad"))
  \/ \E checked \in BOOLEAN :
       SetAutoZoom(checked) /\ Log(UiEvent("setAutoZoom"))
  \/ \E container \in ContainerInputs :
       AutoZoomEffectIn(ViewportOf(container)) /\ Log(UiEvent("autoZoom"))
  \/ \E container \in ContainerInputs :
       AutoScrollEffect(container) /\ Log(UiEvent("autoScroll"))
  \/ \E r \in loads : \E pid \in DocPayloads(r.doc) :
       DocFetchOk(r, pid) /\ Log(Event("docOk", "", FALSE, r))
  \/ \E r \in loads : \E pid \in DocPayloads(r.doc) :
       MetaFetchOk(r, pid) /\ Log(Event("metaOk", "", FALSE, r))

SpecRect == InitOf(RectDocIds) /\ [][NextRect]_vars

\* history: the focus repeats the single-select focus of the step before
Refocus(fieldName, modKey) ==
  /\ ev.op \in {"focus", "refocus"}
  /\ ev.field = fieldName
  /\ ~IsMultiSelect(ev.mod)
  /\ ~IsMultiSelect(modKey)

LogFocus(fieldName, modKey) ==
  Log(Event(IF Refocus(fieldName, modKey) THEN "refocus" ELSE "focus",
            fieldName, modKey, NoReq))

\* The pages of documents 3 and 4, whose field montant carries any geometry,
\* under focus events, Clear and page controls; a focus that repeats the one
\* before is told apart.
NextRefocus ==
  \/ \E fieldName \in FieldNameInputs, modKey \in BOOLEAN :
       handleFocusField(fieldName, modKey) /\ LogFocus(fieldName, modKey)
  \/ clearHighlights /\ Log(UiEvent("clear"))
  \/ PageMinus /\ Log(UiEvent("pageMinus"))
  \/ PagePlus /\ Log(UiEvent("pagePlus"))
  \/ \E r \in loads : \E pid \in DocPayloads(r.doc) :
       DocFetchOk(r, pid) /\ Log(Event("docOk", "", FALSE, r))
  \/ \E r \in loads : \E pid \in DocPayloads(r.doc) :
       MetaFetchOk(r, pid) /\ Log(Event("metaOk", "", FALSE, r))

SpecRefocus == InitOf(GeomDocIds) /\ [][NextRefocus]_vars

\* The page of document 7, whose maps hold any of five fields and a field c
\* of any shape, under focus events; the event of an answer records the
\* payload the load commits.
NextMerge ==
  \/ \E fieldName \in FieldNameInputs :
       /\ handleFocusField(fieldName, FALSE)
       /\ Log(Event("focus", fieldName, FALSE, NoReq))
  \/ \E r \in loads : \E pid \in DocPayloads(r.doc) :
       DocFetchOk(r, pid) /\ Log(Event("docOk", "", FALSE, r))
  \/ \E r \in loads : \E pid \in DocPayloads(r.doc) :
       MetaFetchOk(r, pid) /\ Log(Event("metaOk", "", FALSE, r))

SpecMerge == InitOf(MergeDocIds) /\ [][NextMerge]_vars

\* ------------------------------------------------------------------------
\* Properties
\* ------------------------------------------------------------------------

\* the step was a focus event
IsFocus(e) == e.op = "focus"

\* the step was a multi-select focus event
IsMultiFocus(e) == e.op = "focus" /\ e.mod /\ enhanced

\* the step was the answer to a fetch of a load
IsFetchOk(e) == e.op \in {"docOk", "metaOk"}

IsFetchFail(e) == e.op \in {"docFail", "metaFail"}

\* the answer completed the load: the other fetch had been answered
CompletesLoad(e) ==
  \/ e.op = "docOk" /\ e.req.metaRes = "ok"
  \/ e.op = "metaOk" /\ e.req.docRes = "ok"

\* C1: every selected id is the id of a highlight of the active set.
C1_SelectedSubsetOfHighlights ==
  \A i \in 1..Len(selectedHighlightIds) :
     \E j \in 1..Len(highlights) : highlights[j].id = selectedHighlightIds[i]

\* a multi-select focus has just toggled a highlight off and others remain
C1_Witness ==
  /\ IsMultiFocus(ev)
  /\ buildHighlightForField(ev.field) # NullHighlight
  /\ ~Includes(selectedHighlightIds, buildHighlightForField(ev.field).id)
  /\ Len(selectedHighlightIds) >= 2

\* C2: a focus that is not multi-select, or any focus with the flag off,
\* replaces the highlight state by the candidate alone, or by the idle state
\* when the field yields no candidate.
C2_SingleFocusReplaces ==
  [][ (IsFocus(ev') /\ (~ev'.mod \/ ~enhanced)) =>
        LET candidate == buildHighlightForField(ev'.field)
        IN  IF candidate = NullHighlight
              THEN /\ highlights' = <<>>
                   /\ selectedHighlightIds' = <<>>
              ELSE /\ highlights' = <<candidate>>
                   /\ selectedHighlightIds' = <<candidate.id>> ]_vars

\* with the flag on, a plain focus has replaced the state by one highlight
C2_Witness ==
  /\ enhanced
  /\ IsFocus(ev) /\ ~ev.mod
  /\ buildHighlightForField(ev.field) # NullHighlight
  /\ highlights = <<buildHighlightForField(ev.field)>>
  /\ selectedHighlightIds = <<buildHighlightForField(ev.field).id>>

\* C3: a multi-select focus whose candidate is not selected appends the
\* candidate to highlights and its id to selectedHighlightIds, and the
\* candidate becomes the primary highlight.
C3_MultiFocusAppends ==
  [][ LET candidate == buildHighlightForField(ev'.field)
      IN  (/\ IsMultiFocus(ev')
           /\ candidate # NullHighlight
           /\ ~Includes(selectedHighlightIds, candidate.id)) =>
            /\ selectedHighlightIds' = selectedHighlightIds \o <<candidate.id>>
            /\ highlights' = highlights \o <<candidate>>
            /\ PrimaryOf(highlightsState') = candidate ]_vars

\* a multi-select focus has added a third highlight
C3_Witness ==
  /\ IsMultiFocus(ev)
  /\ Len(selectedHighlightIds) = 3
  /\ buildHighlightForField(ev.field) # NullHighlight
  /\ selectedHighlightIds[3] = buildHighlightForField(ev.field).id
  /\ primaryHighlight.fieldKey = ev.field

\* the ids of s, without id, in the order of s
Without(s, id) ==
  LET Other(x) == x # id IN SelectSeq(s, Other)

\* C4: a multi-select focus whose candidate is selected removes that id, keeps
\* the other ids in their order, and keeps the highlights of the remaining ids.
C4_MultiFocusDeselects ==
  [][ LET candidate == buildHighlightForField(ev'.field)
          Referenced(item) == Includes(selectedHighlightIds', item.id)
      IN  (/\ IsMultiFocus(ev')
           /\ candidate # NullHighlight
           /\ Includes(selectedHighlightIds, candidate.id)) =>
            /\ selectedHighlightIds' = Without(selectedHighlightIds, candidate.id)
            /\ Len(selectedHighlightIds') = Len(selectedHighlightIds) - 1
            /\ highlights' = SelectSeq(highlights, Referenced) ]_vars

\* a multi-select focus has removed a field's highlight and two others remain
C4_Witness ==
  /\ IsMultiFocus(ev)
  /\ buildHighlightForField(ev.field) # NullHighlight
  /\ ~Includes(selectedHighlightIds, buildHighlightForField(ev.field).id)
  /\ Len(selectedHighlightIds) = 2
  /\ Len(highlights) = 2
  /\ \A i \in 1..2 : highlights[i].fieldKey # ev.field

\* C5: a multi-select focus on a field without resolvable bbox changes
\* neither highlights nor selectedHighlightIds.
C5_MultiFocusWithoutBBoxIsNoOp ==
  [][ (IsMultiFocus(ev') /\ buildHighlightForField(ev'.field) = NullHighlight)
        => UNCHANGED highlightsState ]_vars

\* a multi-select focus on a field whose bbox normalizeBBox rejects, with two
\* highlights selected
C5_Witness ==
  /\ IsMultiFocus(ev)
  /\ ev.field \in DOMAIN fieldMeta
  /\ fieldMeta[ev.field] # NullMeta
  /\ fieldMeta[ev.field].bbox # NoBBox
  /\ buildHighlightForField(ev.field) = NullHighlight
  /\ Len(selectedHighlightIds) = 2

\* what identifies a highlight: its field, its resolved page, its coordinates
HighlightKey(h) ==
  <<h.fieldKey, h.bbox.page, h.bbox.x1, h.bbox.y1, h.bbox.x2, h.bbox.y2>>

\* C6: no two highlights of the active set share an id, nor a field with a
\* resolved page and coordinates.
C6_OneHighlightPerId ==
  \A i, j \in 1..Len(highlights) :
     i # j => /\ highlights[i].id # highlights[j].id
              /\ HighlightKey(highlights[i]) # HighlightKey(highlights[j])

\* a field focused in multi-select mode before and after a save moved its
\* bbox has two highlights, of different ids
C6_Witness ==
  /\ IsMultiFocus(ev)
  /\ \E i, j \in 1..Len(highlights) :
        /\ i # j
        /\ highlights[i].fieldKey = ev.field
        /\ highlights[j].fieldKey = ev.field

\* C7: after focus A, multi-select focus B, multi-select focus A, with A # B
\* and both with a bbox, only B is selected.
C7_ToggleLeavesOnlyB ==
  toggle.step = 3 =>
    /\ selectedHighlightIds = <<buildHighlightForField(toggle.b).id>>
    /\ highlights = <<buildHighlightForField(toggle.b)>>

\* the three focus events have happened
C7_Witness ==
  /\ toggle.step = 3
  /\ toggle.a # toggle.b
  /\ activeField = toggle.a
  /\ Len(highlights) = 1

\* C8: with the flag off, highlights and selectedHighlightIds hold at most
\* one entry.
C8_LegacyModeSingleHighlight ==
  ~enhanced => Len(highlights) <= 1 /\ Len(selectedHighlightIds) <= 1

\* with the flag off, a focus with Ctrl/Meta held has selected its field
C8_Witness ==
  /\ ~enhanced
  /\ IsFocus(ev) /\ ev.mod
  /\ Len(highlights) = 1
  /\ highlights[1].fieldKey = ev.field

\* C9: the answer to a load whose effect has been cleaned up (a later
\* documentId, or unmount), success or failure, changes nothing of the page.
C9_StaleLoadDiscarded ==
  [][ ((IsFetchOk(ev') \/ IsFetchFail(ev')) /\ ~ev'.req.mounted) =>
        UNCHANGED <<fieldNames, fieldValues, fieldMeta, rawFields,
                    normalizedFields, userCorrectedFields, previewMeta,
                    previewPage, activeField, highlightsState, error,
                    loading>> ]_vars

\* the answer that completes a superseded load of another document has
\* arrived at a page that shows a selected highlight
C9_Witness ==
  /\ IsFetchOk(ev) /\ CompletesLoad(ev)
  /\ ~ev.req.mounted
  /\ alive
  /\ ev.req.doc # documentId
  /\ Len(highlights) = 1

\* C10: the document payload and the preview metadata are committed by the
\* answer that completes a load, both in that step; a failure or a first
\* answer commits neither.
C10_LoadCommitsBothOrNeither ==
  [][ /\ (IsFetchFail(ev') \/ (IsFetchOk(ev') /\ ~CompletesLoad(ev'))) =>
           UNCHANGED <<fieldVars, previewMeta>>
      /\ (IsFetchOk(ev') /\ CompletesLoad(ev') /\ ev'.req.mounted) =>
           /\ previewMeta' = PreviewMetaOf(ev'.req.doc)
           /\ \E pid \in DocPayloads(ev'.req.doc) :
                /\ rawFields' = Store[pid].raw_extracted_fields
                /\ normalizedFields' = Store[pid].normalized_fields
                /\ userCorrectedFields' = Store[pid].user_corrected_fields
                /\ fieldMeta' = ReconcileMeta(Store[pid])
      /\ previewMeta' # previewMeta =>
           IsFetchOk(ev') /\ CompletesLoad(ev') ]_vars

\* a load has failed on its preview metadata after its document had arrived,
\* and the page holds no field
C10_Witness ==
  /\ ev.op = "metaFail"
  /\ ev.req.docRes = "ok"
  /\ ev.req.mounted
  /\ fieldNames = <<>>
  /\ previewMeta = InitialPreviewMeta
  /\ error # ""

\* C11: at most one save request is in flight, and Save or Validate issues a
\* request only when none is.
C11_SavesSerialized ==
  [][ /\ Cardinality(saves') <= 1
      /\ ev'.op = "save" => saves = {} /\ Cardinality(saves') = 1 ]_vars

\* a correction is typed on the rendered page while a save is in flight
C11_Witness ==
  /\ ev.op = "edit"
  /\ Rendered
  /\ saving
  /\ Cardinality(saves) = 1

\* C12: a failed save changes the error message and the saving flag, and
\* nothing of the fields, the highlights or the rest of the page.
C12_SaveFailKeepsEdits ==
  [][ ev'.op = "saveFail" =>
        /\ UNCHANGED <<fieldNames, fieldValues, fieldMeta, rawFields,
                       normalizedFields, userCorrectedFields, highlightsState>>
        /\ UNCHANGED <<status, previewVars, activeField, viewVars, loading,
                       documentId>>
        /\ alive => error' # "" /\ ~saving' ]_vars

\* a save has failed after a correction was typed while it was in flight,
\* with a highlight selected
C12_Witness ==
  /\ ev.op = "saveFail"
  /\ ev.mod
  /\ userCorrectedFields # ev.req.userCorrectedFields
  /\ Len(highlights) = 1
  /\ error # ""
  /\ ~saving

\* C13: a successful save sets the three field maps to the returned
\* payload's, the field names, values and metadata to its reconciliation,
\* and the status to the payload's or else the requested one.
C13_SaveCommitsPayloadAlone ==
  [][ (ev'.op = "saveOk" /\ alive) =>
        \E pid \in DocPayloads(ev'.req.doc) :
           /\ rawFields' = Store[pid].raw_extracted_fields
           /\ normalizedFields' = Store[pid].normalized_fields
           /\ userCorrectedFields' = Store[pid].user_corrected_fields
           /\ fieldNames' = ReconcileNames(Store[pid])
           /\ fieldValues' = ReconcileValues(Store[pid])
           /\ fieldMeta' = ReconcileMeta(Store[pid])
           /\ status' = IF Store[pid].status # "" THEN Store[pid].status
                        ELSE ev'.req.status ]_vars

\* a Validate request was answered without status after a correction was
\* typed while it was in flight
C13_Witness ==
  /\ ev.op = "saveOk"
  /\ ev.mod
  /\ ev.req.status = "validated"
  /\ status = "validated"
  /\ userCorrectedFields = P1b.user_corrected_fields
  /\ fieldValues = ReconcileValues(P1b)

\* C14: after a successful save every highlight of the active set is the
\* one the builder gives for its field from the metadata the save stored.
C14_SaveRebuildsHighlights ==
  ev.op = "saveOk" =>
    \A i \in 1..Len(highlights) :
       highlights[i] = buildHighlightForField(highlights[i].fieldKey)

\* C15: the answer that completes the current load sets field names, values
\* and metadata to the reconciliation of the loaded payload, the highlight
\* state to idle, the active field to none, the preview page to 1 and the
\* zoom to 1.
C15_LoadCommitResetsPage ==
  [][ (IsFetchOk(ev') /\ CompletesLoad(ev') /\ ev'.req.mounted) =>
        /\ \E pid \in DocPayloads(ev'.req.doc) :
              /\ fieldNames' = ReconcileNames(Store[pid])
              /\ fieldValues' = ReconcileValues(Store[pid])
              /\ fieldMeta' = ReconcileMeta(Store[pid])
        /\ highlightsState' = IdleHighlights
        /\ activeField' = ""
        /\ previewPage' = 1
        /\ zoomScale' = 100 ]_vars

\* a load has committed on a page that showed a zoomed highlight of page 2
\* of another document
C15_Witness ==
  /\ IsFetchOk(ev) /\ CompletesLoad(ev) /\ ev.req.mounted
  /\ ev.mod
  /\ documentId = 2
  /\ fieldNames = ReconcileNames(P2)
  /\ zoomScale = 100
  /\ ~loading

\* C16: a failed fetch of the current load leaves the page not loading, with
\* an error message, and a load is issued only by a step that changes
\* documentId.
C16_LoadFailureNoRetry ==
  [][ /\ (IsFetchFail(ev') /\ ev'.req.mounted) =>
           ~loading' /\ error' # ""
      /\ (\E r \in loads' \ loads :
             r.docRes = "pending" /\ r.metaRes = "pending" /\ r.mounted) =>
           documentId' # documentId ]_vars

\* the document fetch of the current load has failed and nothing is in flight
C16_Witness ==
  /\ ev.op = "docFail"
  /\ ev.req.mounted
  /\ alive
  /\ ~loading
  /\ error # ""
  /\ loads = {}

\* the status of a field's metadata when every error signal is read before
\* any invalid signal
StatusErrorsFirst(meta) ==
  IF ToLower(meta.status) = "error" \/ Len(meta.errors) > 0 THEN "error"
  ELSE IF \/ ToLower(meta.status) = "invalid"
          \/ meta.isValid = "false"
          \/ (meta.confidence # Null /\ meta.confidence < 50)
    THEN "invalid"
  ELSE "ok"

\* C17: the status of a highlight is error if its field's explicit status is
\* "error" or its error list is non-empty, otherwise invalid if the explicit
\* status is "invalid", isValid is false or the confidence is below 0.5,
\* otherwise ok.
C17_ErrorSignalsDominate ==
  \A i \in 1..Len(highlights) :
     highlights[i].status = StatusErrorsFirst(fieldMeta[highlights[i].fieldKey])

\* C18: the visible highlights are the selected highlights, those of the
\* current preview page when the file is a pdf and all of them otherwise.
C18_VisibleHighlights ==
  LET Shown(item) ==
        /\ Includes(selectedHighlightIds, item.id)
        /\ previewMeta.file_type = "pdf" => item.bbox.page = previewPage
  IN  visibleHighlights = SelectSeq(highlights, Shown)

\* in an image document two highlights are selected and visible, one of them
\* of a page other than the preview page
C18_Witness ==
  /\ previewMeta.file_type = "png"
  /\ Len(selectedHighlightIds) = 2
  /\ Len(visibleHighlights) = 2
  /\ \E i \in 1..2 : visibleHighlights[i].bbox.page # previewPage

\* C19: the page of every highlight of the active set is an integer >= 1.
C19_HighlightPagePositive ==
  \A i \in 1..Len(highlights) :
     IsFinite(highlights[i].bbox.page) /\ highlights[i].bbox.page >= 1

\* a raw bbox that is missing, a sequence of a length other than 4, or an
\* object with a coordinate whose number is not finite
Malformed(raw) ==
  \/ raw.form = "null"
  \/ raw.form = "array" /\ Len(raw.c) # 4
  \/ raw.form = "object" /\ \E i \in 1..4 : ~IsFinite(ToNumber(raw.c[i]))

\* C20: a field whose bbox is missing, a sequence of a length other than 4 or
\* an object with a coordinate that is not a finite number has a null
\* normalized bbox and no highlight, a single-select focus on it leaves the
\* highlight state idle, and its value can be edited.
C20_MalformedBBoxIsNull ==
  \A name \in DOMAIN fieldMeta :
     (fieldMeta[name] # NullMeta /\ Malformed(fieldMeta[name].bbox)) =>
        /\ normalizeBBox(fieldMeta[name].bbox,
                         OrElse(fieldMeta[name].page, 1)) = NullBBox
        /\ buildHighlightForField(name) = NullHighlight
        /\ (IsFocus(ev) /\ ~ev.mod /\ ev.field = name) =>
              highlightsState = IdleHighlights
        /\ Rendered => ENABLED handleChangeField(name, "zz")

\* |v|
Abs(v) == IF v < 0 THEN -v ELSE v

\* the rectangle of a box under the scale factors w / nw and h / nh
ScaledRect(bbox, w, nw, h, nh) ==
  [left |-> (bbox.x1 * w) \div nw,
   top |-> (bbox.y1 * h) \div nh,
   width |-> Max(((bbox.x2 - bbox.x1) * w) \div nw, 2),
   height |-> Max(((bbox.y2 - bbox.y1) * h) \div nh, 2)]

\* the rectangle of a relative box: the scale factors are the displayed size
RelativeRect(bbox, metrics) ==
  ScaledRect(bbox, metrics.displayWidth, 1, metrics.displayHeight, 1)

\* the rectangle of an absolute box: the scale factors are displayed size
\* over natural size, and 1 without a natural size
AbsoluteRect(bbox, metrics) ==
  ScaledRect(bbox,
             IF metrics.naturalWidth = 0 THEN 1 ELSE metrics.displayWidth,
             IF metrics.naturalWidth = 0 THEN 1 ELSE metrics.naturalWidth,
             IF metrics.naturalHeight = 0 THEN 1 ELSE metrics.displayHeight,
             IF metrics.naturalHeight = 0 THEN 1 ELSE metrics.naturalHeight)

\* the bbox_relative of the primary highlight's field
PrimaryRelative == fieldMeta[primaryHighlight.fieldKey].bbox_relative

\* max(|x1|, |y1|, |x2|, |y2|) <= 1.5, the coordinates being integers
WithinUnit(bbox) ==
  Max(Max(Abs(bbox.x1), Abs(bbox.y1)), Max(Abs(bbox.x2), Abs(bbox.y2))) <= 1

\* C21: the rectangle of the primary highlight is the relative one when
\* bbox_relative is true, the absolute one when it is false, and without a
\* boolean bbox_relative the relative one if and only if
\* max(|x1|, |y1|, |x2|, |y2|) <= 1.5, negative coordinates included.
C21_RelativeByFlagOrMagnitude ==
  primaryRect # NullRect =>
    primaryRect =
      IF PrimaryRelative = "true"
           \/ (PrimaryRelative = "none" /\ WithinUnit(primaryHighlight.bbox))
        THEN RelativeRect(primaryHighlight.bbox, imageMetrics)
        ELSE AbsoluteRect(primaryHighlight.bbox, imageMetrics)

\* no coordinate of the box is negative
NonNegative(bbox) ==
  bbox.x1 >= 0 /\ bbox.y1 >= 0 /\ bbox.x2 >= 0 /\ bbox.y2 >= 0

\* C22: the rectangle of the primary highlight is left = x1 * sx,
\* top = y1 * sy, width = max((x2 - x1) * sx, 2), height = max((y2 - y1) * sy, 2),
\* with sx, sy the displayed size in relative mode and displayed size over
\* natural size (1 without a natural size) in absolute mode; width and height
\* are at least 2; the box (10, 10, 110, 60) displayed 200x100 with natural
\* size 100x50 gives (20, 20, 200, 100).
C22_RectFormula ==
  primaryRect # NullRect =>
    LET bbox == primaryHighlight.bbox
        relative == RelativeRect(bbox, imageMetrics)
        absolute == AbsoluteRect(bbox, imageMetrics)
    IN  /\ primaryRect \in {relative, absolute}
        /\ PrimaryRelative = "true" => primaryRect = relative
        /\ PrimaryRelative = "false" => primaryRect = absolute
        /\ (PrimaryRelative = "none" /\ NonNegative(bbox)) =>
             primaryRect = IF WithinUnit(bbox) THEN relative ELSE absolute
        /\ primaryRect.width >= 2 /\ primaryRect.height >= 2
        /\ ( /\ <<bbox.x1, bbox.y1, bbox.x2, bbox.y2>> = <<10, 10, 110, 60>>
             /\ PrimaryRelative = "none"
             /\ imageMetrics = [displayWidth |-> 200, displayHeight |-> 100,
                                naturalWidth |-> 100, naturalHeight |-> 50] )
           => primaryRect = [left |-> 20, top |-> 20, width |-> 200,
                             height |-> 100]

\* the box (10, 10, 110, 60) is shown on an image displayed at twice its
\* natural size
C22_Witness ==
  /\ primaryRect = [left |-> 20, top |-> 20, width |-> 200, height |-> 100]
  /\ PrimaryRelative = "none"
  /\ imageMetrics.naturalWidth = 100

\* C23: computeZoomToFit returns a zoom within [minZoom, maxZoom] for every
\* rectangle and container (3 for a rectangle of 100x50 in a container of
\* 800x600 with padding 20, minZoom for a container of no size), and
\* zoomScale is within [1, 3] in every reachable state.
C23_ZoomWithinBounds ==
  /\ zoomScale \in 100..300
  /\ primaryRect # NullRect =>
       \A container \in ContainerInputs :
         LET zoom == computeZoomToFit(primaryRect, ViewportOf(container), 20,
                                      100, 300)
         IN  /\ zoom \in 100..300
             /\ ( /\ primaryRect.width = 100 /\ primaryRect.height = 50
                  /\ container.clientWidth = 800
                  /\ container.clientHeight = 600 ) => zoom = 300
             /\ (container.clientWidth = 0 /\ container.clientHeight = 0)
                  => zoom = 100

\* the auto-zoom effect has set the zoom 3 for a rectangle of 100x50
C23_Witness ==
  /\ ev.op = "autoZoom"
  /\ zoomScale = 300
  /\ primaryRect # NullRect
  /\ primaryRect.width = 100 /\ primaryRect.height = 50

\* C24: with enhanced highlighting, the step that switches auto-zoom off
\* leaves zoomScale at 1, and no step that leaves auto-zoom off moves
\* zoomScale away from 1, be it a selection, a page change or a resize.
C24_ZoomStaysOneWhileOff ==
  [][ enhanced =>
        /\ (autoZoomEnabled /\ ~autoZoomEnabled') => zoomScale' = 100
        /\ (~autoZoomEnabled /\ ~autoZoomEnabled' /\ zoomScale = 100)
             => zoomScale' = 100 ]_vars

\* auto-zoom was switched off at another zoom and has been off since; the
\* image has just been measured again and the primary rectangle would fit at
\* a zoom other than 1
C24_Witness ==
  /\ enhanced
  /\ ev.mod
  /\ ev.op = "resize"
  /\ ~autoZoomEnabled
  /\ zoomScale = 100
  /\ primaryRect # NullRect
  /\ computeZoomToFit(primaryRect, Container, 20, 100, 300) # 100

\* the largest offset of a container along a dimension, in half pixels
MaxOffset(scrollSize, clientSize) == 2 * Max(scrollSize - clientSize, 0)

\* C25: the top offset requested by the auto-scroll effect is within
\* [0, max(scrollHeight - clientHeight, 0)] and the left offset within
\* [0, max(scrollWidth - clientWidth, 0)], for every primary rectangle and
\* every container layout.
C25_ScrollTargetClamped ==
  LET container == viewerScroll.container
  IN  /\ viewerScroll.top >= 0
      /\ viewerScroll.top
           <= MaxOffset(container.scrollHeight, container.clientHeight)
      /\ viewerScroll.left >= 0
      /\ viewerScroll.left
           <= MaxOffset(container.scrollWidth, container.clientWidth)

\* the auto-scroll effect has run, in a container that scrolls, on a
\* rectangle whose centre lies below the scrollable range
C25_Witness ==
  /\ ev.op = "autoScroll"
  /\ primaryRect # NullRect
  /\ viewerScroll.container.scrollHeight > viewerScroll.container.clientHeight
  /\ rectCenter(primaryRect).y - viewerScroll.container.clientHeight
       > viewerScroll.top

\* the position of an item in a sequence that holds it
IndexIn(seq, x) == CHOOSE i \in 1..Len(seq) : seq[i] = x

\* C26: the field names are the keys of the union of the raw, normalized and
\* corrected maps, each once: the keys of the priority list first, in the
\* order of that list, then the other keys in ascending order; raw {a, b},
\* normalized {b, c}, corrected {c} give [a, b, c].
C26_MergeOrder ==
  (Rendered /\ error = "") =>
    /\ SeqToSet(fieldNames) = DOMAIN rawFields \cup DOMAIN normalizedFields
                                \cup DOMAIN userCorrectedFields
    /\ \A i, j \in 1..Len(fieldNames) :
         i < j =>
           LET first == fieldNames[i]
               second == fieldNames[j]
           IN  /\ first # second
               /\ Includes(PRIORITY_FIELDS, second)
                    => /\ Includes(PRIORITY_FIELDS, first)
                       /\ IndexIn(PRIORITY_FIELDS, first)
                            < IndexIn(PRIORITY_FIELDS, second)
               /\ ~Includes(PRIORITY_FIELDS, first)
                    => IndexIn(SortedNames, first) < IndexIn(SortedNames, second)
    /\ ( /\ DOMAIN rawFields = {"a", "b"}
         /\ DOMAIN normalizedFields = {"b", "c"}
         /\ DOMAIN userCorrectedFields = {"c"} )
       => fieldNames = <<"a", "b", "c">>

\* a load has committed raw {a, b}, normalized {b, c}, corrected {c}
C26_Witness ==
  /\ CompletesLoad(ev)
  /\ DOMAIN rawFields = {"a", "b"}
  /\ DOMAIN normalizedFields = {"b", "c"}
  /\ DOMAIN userCorrectedFields = {"c"}
  /\ fieldNames = <<"a", "b", "c">>

\* C27: the value a load commits for a field is read from the corrected map
\* if the name is a key there, otherwise from the normalized map if it is a
\* key there, otherwise from the raw map; with normalized c = 4 and
\* corrected c = 5 the value of c is 5.
C27_ValuePrecedence ==
  (Rendered /\ error = "") =>
    /\ \A name \in SeqToSet(fieldNames) :
         fieldValues[name] =
           IF name \in DOMAIN userCorrectedFields
             THEN readValue(userCorrectedFields[name])
           ELSE IF name \in DOMAIN normalizedFields
             THEN readValue(normalizedFields[name])
           ELSE readValue(rawFields[name])
    /\ ( /\ "c" \in DOMAIN normalizedFields \cap DOMAIN userCorrectedFields
         /\ normalizedFields["c"] = Scalar("4")
         /\ userCorrectedFields["c"] = Scalar("5") )
       => fieldValues["c"] = "5"

\* a load has committed raw c = 3, normalized c = 4 and corrected c = 5
C27_Witness ==
  /\ CompletesLoad(ev)
  /\ "c" \in DOMAIN rawFields \cap DOMAIN normalizedFields
              \cap DOMAIN userCorrectedFields
  /\ rawFields["c"] = Scalar("3")
  /\ normalizedFields["c"] = Scalar("4")
  /\ userCorrectedFields["c"] = Scalar("5")
  /\ fieldValues["c"] = "5"

\* the value of a field in a map is an object: not a scalar, null or an array
ObjectShaped(map, name) == name \in DOMAIN map /\ map[name].kind = "object"

\* C28: the metadata a load commits for a field is that of the first of the
\* corrected, normalized and raw maps whose value for the field is an object;
\* a scalar, null or array value has none, so the metadata may come from a
\* map below the one of the displayed value; a field with no object value
\* has no metadata, and a focus on it yields no highlight.
C28_MetaFromFirstObject ==
  (Rendered /\ error = "") =>
    /\ \A name \in SeqToSet(fieldNames) :
         /\ fieldMeta[name] =
              IF ObjectShaped(userCorrectedFields, name)
                THEN extractFieldMeta(userCorrectedFields[name])
              ELSE IF ObjectShaped(normalizedFields, name)
                THEN extractFieldMeta(normalizedFields[name])
              ELSE IF ObjectShaped(rawFields, name)
                THEN extractFieldMeta(rawFields[name])
              ELSE NullMeta
         /\ \A map \in {rawFields, normalizedFields, userCorrectedFields} :
              name \in DOMAIN map =>
                (extractFieldMeta(map[name]) = NullMeta
                   <=> map[name].kind \in {"scalar", "null", "array"})
    /\ (ev.op = "focus" /\ fieldMeta[ev.field] = NullMeta)
         => highlightsState = IdleHighlights

\* c is displayed with its corrected value, a scalar, and has been focused:
\* its highlight has the box of the normalized map
C28_Witness ==
  /\ ev.op = "focus" /\ ev.field = "c"
  /\ "c" \in DOMAIN userCorrectedFields
  /\ userCorrectedFields["c"] = Scalar("5")
  /\ fieldValues["c"] = "5"
  /\ fieldMeta["c"] # NullMeta
  /\ fieldMeta["c"].bbox = ArrBBox(<<4, 4, 10, 10>>)
  /\ Len(highlights) = 1
  /\ highlights[1].bbox.x1 = 4

\* the ids of a sequence of highlights
IdsOf(hs) == [i \in 1..Len(hs) |-> hs[i].id]

\* C29: a single-select focus on the field of the single-select focus just
\* before builds the same highlight, with the same id, and leaves the ids of
\* the highlights and the selected ids as the first focus left them.
C29_RefocusIsIdempotent ==
  [][ ev'.op = "refocus" =>
        /\ \A fieldName \in FieldNameInputs :
             ev'.field = fieldName =>
               buildHighlightForField(fieldName)'
                 = buildHighlightForField(fieldName)
        /\ IdsOf(highlights') = IdsOf(highlights)
        /\ selectedHighlightIds' = selectedHighlightIds ]_vars

\* a field with a box has been focused twice in a row without modifier key
C29_Witness ==
  /\ ev.op = "refocus"
  /\ enhanced
  /\ Len(highlights) = 1
  /\ highlights[1].fieldKey = ev.field
  /\ selectedHighlightIds = <<highlights[1].id>>

\* the natural size of the image, as the page holds it
NaturalSize == <<imageMetrics.naturalWidth, imageMetrics.naturalHeight>>

\* C30: a window resize and a re-measurement after a paint change
\* displayWidth and displayHeight of imageMetrics and nothing else;
\* naturalWidth and naturalHeight change with the image's load handler only.
C30_NaturalSizeFrame ==
  [][ /\ ev'.op \in {"resize", "remeasure"} =>
           /\ NaturalSize' = NaturalSize
           /\ UNCHANGED <<enhanced, raf, documentId, alive, loading, error, saving,
                          previewVars, fieldVars, activeField, highlightsState,
                          autoZoomEnabled, zoomScale, viewerScroll, loads,
                          saves>>
      /\ NaturalSize' # NaturalSize => ev'.op = "imgLoad" ]_vars

\* the image has loaded with its natural size and a later resize has
\* measured it with no extent
C30_Witness ==
  /\ ev.op = "resize"
  /\ NaturalSize = <<200, 100>>
  /\ imageMetrics.displayWidth = 0
  /\ imageMetrics.displayHeight = 0

\* the frames requested and not cancelled
PendingFrames == {f \in raf.frames : ~f.cancelled}

\* C31: at most one requested frame is not cancelled, and it is the one of the
\* effect's last run; a run of the effect after a change of the preview url,
\* of the page or of the zoom cancels the frame requested before, and so does
\* the unmount; a cancelled frame writes no metrics.
C31_FramesCancelled ==
  [][ /\ Cardinality(PendingFrames') <= 1
      /\ \A f \in PendingFrames' : f.deps = raf'.deps
      /\ ev'.op \in {"remeasureEffect", "unmount"} =>
           PendingFrames \cap PendingFrames' = {}
      /\ ~alive' => PendingFrames' = {}
      /\ (ev'.op = "raf" /\ ev'.mod) => imageMetrics' = imageMetrics ]_vars

\* the browser has come to a cancelled frame while the image was shown and
\* the frame of the effect's last run was pending
C31_Witness ==
  /\ ev.op = "raf"
  /\ ev.mod
  /\ ImageMounted
  /\ Cardinality(PendingFrames) = 1

\* C32: once the page targets another document and shows what was loaded
\* for it, the answer to a save issued for the document before leaves the
\* field names, values and metadata as they are.
C32_StaleSaveNotApplied ==
  [][ (ev'.op = "saveOk" /\ ev'.req.doc # documentId /\ ~loading /\ error = "") =>
        UNCHANGED <<fieldNames, fieldValues, fieldMeta>> ]_vars

\* C33: when the load of the document the page targets has failed, the state
\* holds no field names, values, metadata or highlights.
C33_FailedLoadLeavesNoFields ==
  (IsFetchFail(ev) /\ ev.req.mounted /\ ev.req.doc = documentId) =>
     /\ fieldNames = <<>>
     /\ fieldValues = EmptyMap
     /\ fieldMeta = EmptyMap
     /\ highlights = <<>>

\* C34: the ids of the highlights, in their order, are the selected ids.
C34_HighlightsAreTheSelection ==
  IdsOf(highlights) = selectedHighlightIds

\* a multi-select focus has toggled a highlight off between two that stay
C34_Witness ==
  /\ ev.op = "focus"
  /\ ev.mod
  /\ enhanced
  /\ Len(highlights) = 2
  /\ buildHighlightForField(ev.field) # NullHighlight
  /\ ~Includes(selectedHighlightIds, buildHighlightForField(ev.field).id)

\* C35: a multi-select focus on a field that has a highlight in the selection
\* leaves no highlight of that field in the selection, and the active set
\* never holds two highlights of one field.
C35_MultiFocusTogglesTheField ==
  [][ /\ (IsMultiFocus(ev') /\
          \E i \in 1..Len(highlights) : highlights[i].fieldKey = ev'.field) =>
            \A i \in 1..Len(highlights') : highlights'[i].fieldKey # ev'.field
      /\ \A i, j \in 1..Len(highlights') :
            highlights'[i].fieldKey = highlights'[j].fieldKey => i = j ]_vars

\* C36: in a pdf document, after a focus event that leaves the highlight of
\* the focused field selected, the preview page is the page of that highlight
\* and the highlight is among the visible ones.
C36_FocusShowsTheHighlight ==
  LET candidate == buildHighlightForField(ev.field)
  IN  (/\ IsFocus(ev)
       /\ previewMeta.file_type = "pdf"
       /\ candidate # NullHighlight
       /\ Includes(selectedHighlightIds, candidate.id)) =>
         /\ previewPage = candidate.bbox.page
         /\ \E i \in 1..Len(visibleHighlights) : visibleHighlights[i] = candidate

\* C37: in a pdf document, when the auto-zoom or the auto-scroll effect acts
\* on the primary rectangle, the primary highlight is of the current preview
\* page.
C37_EffectsTargetTheCurrentPage ==
  [][ (ev'.op \in {"autoZoom", "autoScroll"} /\ previewMeta.file_type = "pdf") =>
        primaryHighlight.bbox.page = previewPage ]_vars

\* C38: in a pdf document the preview page is one of the document's pages.
C38_PreviewPageWithinDocument ==
  previewMeta.file_type = "pdf" =>
    previewPage >= 1 /\ previewPage <= previewMeta.page_count

\* the steps of the loop of the zoom, as logged
LoopOps == {"remeasureEffect", "raf", "autoZoom"}

C40_EditFrame ==
  [][ /\ ev'.op = "edit" =>
           /\ DOMAIN fieldValues' = DOMAIN fieldValues \cup {ev'.field}
           /\ \A name \in DOMAIN fieldValues \ {ev'.field} :
                 fieldValues'[name] = fieldValues[name]
           /\ DOMAIN userCorrectedFields' =
                DOMAIN userCorrectedFields \cup {ev'.field}
           /\ \A name \in DOMAIN userCorrectedFields \ {ev'.field} :
                 userCorrectedFields'[name] = userCorrectedFields[name]
           /\ readValue(userCorrectedFields'[ev'.field]) = fieldValues'[ev'.field]
           /\ UNCHANGED <<fieldNames, fieldMeta, highlightsState, previewPage,
                          zoomScale>>
           /\ badgeByField'[ev'.field] = "corrected"
      /\ ~(ev'.op = "saveOk" \/ (IsFetchOk(ev') /\ CompletesLoad(ev'))) =>
           \A name \in DOMAIN badgeByField :
              badgeByField[name] = "corrected" =>
                 /\ name \in DOMAIN badgeByField'
                 /\ badgeByField'[name] = "corrected" ]_vars

\* email, whose badge was "raw", has just been edited while total has a
\* correction and a highlight is selected: its badge is "corrected"
C40_Witness ==
  /\ ev.op = "edit"
  /\ ev.field = "email"
  /\ "total" \in DOMAIN userCorrectedFields
  /\ Len(highlights) > 0
  /\ "email" \in DOMAIN badgeByField
  /\ badgeByField["email"] = "corrected"

=============================================================================
